---- MODULE Spec2Model ----
(***************************************************************************)
(* OpenClaw Hivemind: join authentication, session lifecycle, message log  *)
(* and gossip anti-entropy, as implemented by the Bun server (server.ts)   *)
(* and by the Cloudflare Worker + Durable Object (worker.ts).              *)
(*                                                                         *)
(* A deployment is either one Bun process (one store for every hive) or a  *)
(* Worker whose front door routes each request to the Durable Object named *)
(* after the request's hive.  A node is one store owner: <<d, ProcName>>   *)
(* for the Bun process of deployment d, <<d, h>> for the Durable Object of *)
(* hive h.  Time is Date.now() in milliseconds.                            *)
(***************************************************************************)
EXTENDS Integers, Sequences, FiniteSets, TLC

VARIABLES
  now,            \* Date.now()
  ticks,          \* number of clock advances so far (bounds the run)
  kind,           \* deployment -> "bun" | "worker"
  peers,          \* deployment -> GOSSIP_PEERS (a list of deployments)
  thisHiveId,     \* node -> HivemindHive.hiveId (Bun: the constant HIVE_ID)
  challenges,     \* node -> [nonce -> Challenge]
  sessions,       \* node -> [token -> Session]
  messages,       \* node -> sequence of HiveMessage, in insertion order
  messageIds,     \* node -> set of stored uids
  nextMessageId,  \* node -> next id to allocate
  peerCursors,    \* node -> [peer deployment -> createdAtMs high-water mark]
  alarm,          \* node -> whether a Durable Object alarm is scheduled
  uuids,          \* number of randomUUID() values drawn so far
  proofRequired,  \* deployment -> OPENCLAW_DEVICE_PROOF_REQUIRED
  gossipToken,    \* deployment -> HIVEMIND_GOSSIP_TOKEN ("" when not configured)
  envInterval,    \* deployment -> HIVEMIND_GOSSIP_INTERVAL_MS (Absent when not configured)
  flows,          \* handlers suspended at an await: flow id -> its position and locals
  issued,         \* history: nonce -> the Challenge /challenge answered with
  consumed,       \* history: nonces whose challenge a successful /join deleted
  resp            \* the last request and its response

vars == <<now, ticks, kind, peers, thisHiveId, challenges, sessions, messages,
          messageIds, nextMessageId, peerCursors, alarm, uuids, proofRequired,
          gossipToken, envInterval, flows, issued, consumed, resp>>

----------------------------------------------------------------------------
\* Bounds of the model.

MaxTicks == 1          \* clock advances (Spec)
MaxChallenges == 1     \* challenges issued (Spec)
MaxGossipTicks == 1    \* clock advances (the specifications with peers)
MaxMessages == 2       \* distinct uids posted or pushed (GossipSpec, SourceSpec)
MaxStored == 2         \* distinct uids posted or pushed (StoreSpec)
MaxSessionTicks == 1   \* clock advances (SessionSpec)
MaxPosts == 1          \* messages posted (SessionSpec)
FeedChunks == 13       \* batches pushed (FeedSpec)
MaxHiveChallenges == 2 \* challenges issued (HiveSpec)
MaxFlows == 2          \* handlers and poll cycles in progress
MaxRaceTicks == 1      \* clock advances (RaceSpec)
MaxIntervalTicks == 1  \* clock advances (IntervalSpec)
MaxPushTicks == 1      \* clock advances (PushSpec)
MaxWaiting == 1        \* requests that wait for their body

----------------------------------------------------------------------------
\* Program constants.

CHALLENGE_TTL_MS == 2 * 60 * 1000
SESSION_TTL_MS == 24 * 60 * 60 * 1000
MAX_CLOCK_SKEW_MS == 2 * 60 * 1000
OPENCLAW_DEVICE_PROOF_TTL_MS == 5 * 60 * 1000
MAX_MESSAGES_LIMIT == 200
MAX_GOSSIP_BATCH == 500
PROTOCOL_VERSION == "OPENCLAW_HIVEMIND_V1"

\* JavaScript's undefined (a missing JSON field) and NaN.
Undef == "undefined"
NaN == -999999999

\* Hive identifiers are strings, written as their '.'-separated segments:
\* "h1" is <<"h1">>.
H1 == <<"h1">>
H2 == <<"h2">>
NoHive == <<Undef>>
Hives == {H1, H2}

\* env.HIVE_ID / Bun.env.HIVE_ID of every deployment.
HIVE_ID == H1

ProcName == <<"bun-process">>
Deployments == {"A", "B"}
AllNodes == {<<d, p>> : d \in Deployments, p \in {ProcName} \cup Hives}

----------------------------------------------------------------------------
\* JavaScript values.

\* !x for a string-valued field: undefined and "" are falsy.
Falsy(x) == x = Undef \/ x = ""

\* randomUUID(): the k-th value drawn; values never repeat.
UUID(k) == "uuid-" \o ToString(k)

\* A time string is [ms, form]: form "iso" is what Date.prototype.toISOString
\* prints, "alt" another spelling Date.parse accepts for the same instant
\* (no fractional seconds, an offset), "bad" a string Date.parse rejects, and
\* Undef a missing field.
ToISOString(ms) == [ms |-> ms, form |-> "iso"]
NoTime == [ms |-> NaN, form |-> Undef]
DateParse(t) == IF t.form \in {"iso", "alt"} THEN t.ms ELSE NaN

PastDiffExceeds(a, b, limit) == a # NaN /\ b # NaN /\ a - b > limit

\* Math.abs(a - b) > limit, false when either side is NaN.
AbsDiffExceeds(a, b, limit) ==
  /\ a # NaN /\ b # NaN
  /\ (IF a >= b THEN a - b ELSE b - a) > limit

----------------------------------------------------------------------------
\* crypto.ts.  A public key is a text; a signature is the base64 of `len`
\* bytes and, when genuine, was made with the secret key of public key `by`
\* over message `over`.

\* The i-th character of a text.
CharAt(text, i) == SubSeq(text, i, i)

\* bs58 is base-x over this alphabet.
ALPHABET == "123456789ABCDEFGHJKLMNPQRSTUVWXYZabcdefghijkmnopqrstuvwxyz"

\* BASE_MAP of a character: its place in the alphabet, 255 outside it.
BASE_MAP(c) ==
  IF \E i \in 1..Len(ALPHABET) : CharAt(ALPHABET, i) = c
  THEN (CHOOSE i \in 1..Len(ALPHABET) : CharAt(ALPHABET, i) = c) - 1
  ELSE 255

\* The leading "1"s of the text from place i on: each stands for a zero byte.
RECURSIVE Zeroes(_, _)
Zeroes(source, i) ==
  IF i <= Len(source) /\ CharAt(source, i) = "1" THEN 1 + Zeroes(source, i + 1) ELSE 0

\* b256 * BASE + carry, on the bytes of b256 from the lowest on.
RECURSIVE MulAdd(_, _)
MulAdd(b256, carry) ==
  IF b256 = <<>>
  THEN IF carry = 0 THEN <<>> ELSE <<carry % 256>> \o MulAdd(<<>>, carry \div 256)
  ELSE LET c == carry + Len(ALPHABET) * Head(b256)
       IN <<c % 256>> \o MulAdd(Tail(b256), c \div 256)

\* The bytes set aside for n characters, (n * FACTOR + 1) >>> 0 with FACTOR =
\* log 58 / log 256 = 0.7322..., here rounded up to 733 / 1000: no number of
\* n characters has more bytes than either.
SizeFor(n) == ((n * 733) \div 1000) + 1

\* The loop of decodeUnsafe over the characters from place psz on: a
\* character outside the alphabet ends it, and decode throws; so does a
\* carry left over when the bytes set aside are used up.
RECURSIVE DecodeFrom(_, _, _, _)
DecodeFrom(source, psz, b256, size) ==
  IF psz > Len(source) THEN [throws |-> FALSE, len |-> Len(b256)]
  ELSE LET carry == BASE_MAP(CharAt(source, psz))
           next == MulAdd(b256, carry)
       IN IF carry = 255 THEN [throws |-> TRUE, len |-> 0]
          ELSE IF Len(next) > size THEN [throws |-> TRUE, len |-> 0]
          ELSE DecodeFrom(source, psz + 1, next, size)

\* decode of a text: whether it throws (a character outside the alphabet)
\* and the number of bytes it returns, the zero bytes of the leading "1"s and
\* the bytes of the number the other characters spell.
DecodeText(source) ==
  LET zeroes == Zeroes(source, 1)
      d == DecodeFrom(source, zeroes + 1, <<>>, SizeFor(Len(source) - zeroes))
  IN IF d.throws THEN d ELSE [d EXCEPT !.len = zeroes + @]

\* The public keys of two agents (32 bytes each), a text of 31 bytes, and a
\* text that is no base58.
K1 == "9C6hybhQ6Aycep9jaUnP6uL9ZYvDjUp1aSkFWPUFJtpj"
K2 == "GcQfK48DV9BzDuDeCyV2sShbAAY4vqmK8JSj1NBrwoVZ"
Kshort == "2re6CvB4RHJp3gEJoZ87NGwBYqvHw2mdqMnbZ2vJHk1"
Kbad == "K!bad"

\* DecodeText of the key texts above, worked out once.
DecodedKeys ==
  K1 :> DecodeText(K1) @@ K2 :> DecodeText(K2) @@ Kshort :> DecodeText(Kshort)
    @@ Kbad :> DecodeText(Kbad)

\* bs58.decode: it throws when given no string, and decodes a text.
Bs58Decode(pubkey) ==
  IF pubkey = Undef THEN [throws |-> TRUE, len |-> 0]
  ELSE IF pubkey \in DOMAIN DecodedKeys THEN DecodedKeys[pubkey]
  ELSE DecodeText(pubkey)

PublicKeyLength == 32
\* The bytes of a detached signature (nacl.sign.signatureLength).
SignatureLength == 64

\* nacl.sign.detached.signatureLength, the property both verifiers read:
\* tweetnacl sets signatureLength on nacl.sign, and the function
\* nacl.sign.detached has the one property `verify`, so the read is undefined.
detachedSignatureLength == [defined |-> FALSE, value |-> 0]

\* len !== prop, for a number len and a property that may be undefined.
LengthDiffers(len, prop) == ~prop.defined \/ len # prop.value

acceptAnyKey(pubkey) == TRUE

isValidSolanaPublicKey(pubkey) ==
  LET d == Bs58Decode(pubkey) IN ~d.throws /\ d.len = PublicKeyLength

signMessage(message, pubkey) ==
  [len |-> SignatureLength, by |-> pubkey, over |-> message]

NoSignature == [len |-> 0, by |-> Undef, over |-> <<>>]

naclVerify(message, signature, pubkey) ==
  signature.by = pubkey /\ signature.over = message

verifyMessage(message, signature, pubkey) ==
  LET d == Bs58Decode(pubkey) IN
  IF d.throws THEN FALSE
  ELSE IF d.len # PublicKeyLength THEN FALSE
  ELSE IF LengthDiffers(signature.len, detachedSignatureLength) THEN FALSE
  ELSE naclVerify(message, signature, pubkey)

\* The characters the base64 decoder of Buffer takes as data ("-" and "_"
\* are read as "+" and "/").
Base64Alphabet == "ABCDEFGHIJKLMNOPQRSTUVWXYZabcdefghijklmnopqrstuvwxyz0123456789+/-_"

\* The data characters of the text from place i on: the decoder passes over
\* a character outside the alphabet and stops at the first "=".
RECURSIVE Base64Count(_, _)
Base64Count(text, i) ==
  IF i > Len(text) \/ CharAt(text, i) = "=" THEN 0
  ELSE (IF \E j \in 1..Len(Base64Alphabet) : CharAt(Base64Alphabet, j) = CharAt(text, i)
        THEN 1 ELSE 0) + Base64Count(text, i + 1)

\* The bytes of the data characters of a text: every four give three bytes,
\* two or three remaining ones one or two, a single remaining one none.
DecodedLength(text) == (Base64Count(text, 1) * 3) \div 4

\* A device public key: the base64 text of 32 bytes, with its padding.
DeviceKey == "rcFAEfgtHFbZVqpPnXPYhYNhpgYEhSXg0Ixjjcdd2Mc="

\* DecodedLength of the device key, worked out once.
DeviceKeyLength == DecodedLength(DeviceKey)

\* Buffer.from(text, "base64").length.
Base64Len(text) == IF text = DeviceKey THEN DeviceKeyLength ELSE DecodedLength(text)

verifyEd25519Base64(message, signature, publicKey) ==
  IF publicKey = Undef THEN FALSE
  ELSE IF LengthDiffers(signature.len, detachedSignatureLength) THEN FALSE
  ELSE IF Base64Len(publicKey) # PublicKeyLength THEN FALSE
  ELSE naclVerify(message, signature, publicKey)

\* protocol.ts: the seven fields joined by "\n" (no field here holds "\n").
buildJoinMessage(agentId, pubkey, nonce, hiveId, challengeExpiresAt, timestamp) ==
  <<PROTOCOL_VERSION, agentId, pubkey, nonce, hiveId, challengeExpiresAt, timestamp>>

verifyOpenClawDeviceProof(proof, t) ==
  LET signedAtMs == DateParse(proof.signedAt) IN
  IF signedAtMs = NaN THEN FALSE
  ELSE IF AbsDiffExceeds(t, signedAtMs, OPENCLAW_DEVICE_PROOF_TTL_MS) THEN FALSE
  ELSE verifyEd25519Base64(proof.nonce, proof.signature, proof.publicKey)

----------------------------------------------------------------------------
\* Maps (Map / Durable Object storage keys of one prefix).

EmptyMap == [x \in {} |-> TRUE]
MapPut(f, k, v) == [x \in (DOMAIN f) \cup {k} |-> IF x = k THEN v ELSE f[x]]
MapDelete(f, ks) == [x \in (DOMAIN f) \ ks |-> f[x]]

Max(a, b) == IF a >= b THEN a ELSE b
Min(a, b) == IF a <= b THEN a ELSE b

----------------------------------------------------------------------------
\* Routing.  The Worker's front door picks the Durable Object from the hive it
\* finds in the request; the Bun process serves everything itself.

Node(d, hive) == IF kind[d] = "bun" THEN <<d, ProcName>> ELSE <<d, hive>>

\* worker.ts fetch: hive_id of a POST body, else env.HIVE_ID.
RouteByBody(d, hive_id) == Node(d, IF hive_id = NoHive THEN HIVE_ID ELSE hive_id)

\* parseHiveFromToken: token.split("."), first part unless there is only one
\* part or the first part is empty.  A token is the sequence of its parts.
parseHiveFromToken(token, fallback) ==
  IF token = <<>> THEN fallback
  ELSE IF Len(token) < 2 THEN fallback
  ELSE IF token[1] = "" THEN fallback
  ELSE <<token[1]>>

\* parseAuthToken: "Bearer <token>", null (the empty token) otherwise.
NoToken == <<>>
parseAuthToken(header) ==
  IF header.scheme = Undef THEN NoToken
  ELSE IF header.scheme # "Bearer" \/ header.token = <<"">> THEN NoToken
  ELSE header.token

RouteByToken(d, header) == Node(d, parseHiveFromToken(parseAuthToken(header), HIVE_ID))

\* HivemindHive.fetch: if (hiveHeader) this.hiveId = hiveHeader; an empty
\* x-hive-id leaves the field as it was (the Bun process has no such field).
SetHive(n) ==
  IF kind[n[1]] = "worker" /\ n[2] # ProcName /\ n[2] # <<"">>
  THEN [thisHiveId EXCEPT ![n] = n[2]]
  ELSE thisHiveId

\* Number(text) of a query parameter or an environment variable is
\* [nan, twice]: NaN, or the number twice/2; Absent when there is no text.

Num(k) == [nan |-> FALSE, twice |-> 2 * k]
Half(k) == [nan |-> FALSE, twice |-> 2 * k + 1]
NotANumber == [nan |-> TRUE, twice |-> 0]
Absent == [nan |-> TRUE, twice |-> 1]

MathMax(a, b) == IF a.nan \/ b.nan THEN NotANumber ELSE IF a.twice >= b.twice THEN a ELSE b
MathMin(a, b) == IF a.nan \/ b.nan THEN NotANumber ELSE IF a.twice <= b.twice THEN a ELSE b

\* Number(env.HIVEMIND_GOSSIP_INTERVAL_MS ?? 5000)
GOSSIP_INTERVAL_MS == 5000
gossipIntervalMs(d) == IF envInterval[d] = Absent THEN Num(GOSSIP_INTERVAL_MS) ELSE envInterval[d]

\* Math.max(1000, gossipIntervalMs)
PollInterval(d) == MathMax(Num(1000), gossipIntervalMs(d))

\* The delay setInterval runs with: a delay that is NaN, below 1 or above
\* TIMEOUT_MAX is set to 1.
TIMEOUT_MAX == 2147483647
setIntervalDelay(ms) ==
  IF ms.nan \/ ms.twice < 2 \/ ms.twice \div 2 > TIMEOUT_MAX THEN 1 ELSE ms.twice \div 2

\* t + ms, in whole milliseconds; NaN when ms is NaN.
PlusMs(t, ms) == IF ms.nan THEN NaN ELSE t + (ms.twice \div 2)

\* ensureAlarm: with peers configured, (re)schedule the alarm.
NoAlarm == -1
ensureAlarm(n, t) ==
  IF kind[n[1]] = "worker" /\ peers[n[1]] # <<>>
  THEN [alarm EXCEPT ![n] = PlusMs(t, PollInterval(n[1]))]
  ELSE alarm

----------------------------------------------------------------------------
\* Flows.  A flow is one invocation of a handler or of pollPeers; between two
\* of its steps it is suspended at an await.  The awaits of input and output
\* (the request body, fetch, res.json) let other events of the node run; the
\* storage operations of a Durable Object keep its input gate closed, and the
\* Bun server's code between two awaits runs to completion.

IoWaits == {"body", "sent", "served", "refused"}

NoRecord == [uid |-> Undef, ts |-> NoTime, createdAtMs |-> NaN, agentId |-> Undef,
             hiveId |-> NoHive, content |-> Undef, channel |-> Undef, source |-> Undef]

NoFlow == 0

gateAlwaysOpen(n, f) == TRUE

\* An event of flow f (NoFlow: a new request or timer) is delivered at node n
\* only while no other flow of the node is between storage operations.
InputGateOpen(n, f) ==
  \A g \in DOMAIN flows \ {f} : flows[g].at = n => flows[g].pc \in IoWaits

FreshFlow == CHOOSE i \in 1..(Cardinality(DOMAIN flows) + 1) : i \notin DOMAIN flows

NewFlow(k, n) ==
  [kind |-> k, at |-> n, pc |-> "body", todo |-> <<>>, size |-> 0, cur |-> NoRecord,
   id |-> 0, accepted |-> 0, skipped |-> 0, stored |-> 0, header |-> Undef,
   peer |-> Undef, rest |-> <<>>, asked |-> NoHive, sinceMs |-> 0, maxSeen |-> 0,
   body |-> Undef, challenge |-> Undef, threw |-> FALSE, token |-> NoToken,
   session |-> Undef]

\* The request flows of kind k that wait for their body.
WaitingFor(k) == {f \in DOMAIN flows : flows[f].kind = k /\ flows[f].pc = "body"}

----------------------------------------------------------------------------
\* POST /challenge

\* cleanupChallenges: the challenges left after eviction at time t.
cleanupChallenges(cs, t) ==
  MapDelete(cs, {k \in DOMAIN cs : /\ DateParse(cs[k].expiresAt) # NaN
                                    /\ DateParse(cs[k].expiresAt) <= t})

ChallengeStatus(body) ==
  IF Falsy(body.agent_id) \/ Falsy(body.pubkey) THEN 400
  ELSE IF ~isValidSolanaPublicKey(body.pubkey) THEN 400
  ELSE 200

\* POST /challenge arrives: the Worker's fetch writes this.hiveId; then the
\* handler waits for the body (await readJson).
ChallengeArrive(d, body) ==
  LET n == RouteByBody(d, body.hive_id) IN
  /\ InputGateOpen(n, NoFlow)
  /\ thisHiveId' = SetHive(n)
  /\ flows' = MapPut(flows, FreshFlow, [NewFlow("challenge", n) EXCEPT !.body = body])
  /\ resp' = [op |-> "none"]
  /\ UNCHANGED <<now, ticks, kind, peers, proofRequired, gossipToken, envInterval, challenges, sessions,
                 messages, messageIds, nextMessageId, peerCursors, alarm, uuids,
                 issued, consumed>>

\* /challenge, its body read: the checks, cleanupChallenges, the new
\* challenge, ensureAlarm and the answer.
Challenge(f) ==
  LET fl == flows[f]
      n == fl.at
      body == fl.body
      status == ChallengeStatus(body)
      nonce == UUID(uuids + 1)
      c == [agentId |-> body.agent_id,
            pubkey |-> body.pubkey,
            nonce |-> nonce,
            hiveId |-> IF body.hive_id = NoHive THEN thisHiveId[n] ELSE body.hive_id,
            expiresAt |-> ToISOString(now + CHALLENGE_TTL_MS)]
  IN
  /\ fl.kind = "challenge" /\ fl.pc = "body"
  /\ InputGateOpen(n, f)
  /\ flows' = MapDelete(flows, {f})
  /\ IF status = 200
     THEN /\ uuids' = uuids + 1
          /\ challenges' = [challenges EXCEPT
                              ![n] = MapPut(cleanupChallenges(@, now), nonce, c)]
          /\ issued' = MapPut(issued, nonce, c)
          /\ alarm' = ensureAlarm(n, now)
          /\ resp' = [op |-> "challenge", at |-> n, status |-> 200,
                      nonce |-> nonce, hive_id |-> c.hiveId, expires_at |-> c.expiresAt]
     ELSE /\ resp' = [op |-> "challenge", at |-> n, status |-> status]
          /\ UNCHANGED <<uuids, challenges, issued, alarm>>
  /\ UNCHANGED <<now, ticks, kind, peers, proofRequired, gossipToken, envInterval, thisHiveId, sessions,
                 messages, messageIds, nextMessageId, peerCursors, consumed>>

----------------------------------------------------------------------------
\* POST /join

NoDevice == [publicKey |-> Undef, signature |-> NoSignature, nonce |-> Undef,
             signedAt |-> NoTime]

noFieldsProvided(dev) == FALSE

\* One of the four device-proof fields is in the body.
deviceFieldsProvided(dev) ==
  \/ ~Falsy(dev.publicKey)
  \/ dev.signature # NoSignature
  \/ ~Falsy(dev.nonce)
  \/ ~Falsy(dev.signedAt.form)

deviceFieldMissing(dev) ==
  \/ Falsy(dev.publicKey)
  \/ dev.signature = NoSignature
  \/ Falsy(dev.nonce)
  \/ Falsy(dev.signedAt.form)

neverExpired(challengeExpiry, t) == FALSE

\* The expiry test of /join.
challengeExpired(challengeExpiry, t) == challengeExpiry = NaN \/ challengeExpiry < t

RejectBadRequest(status, error) == [status |-> 400, error |-> error, effect |-> "keep"]

\* return badRequest(error) / return unauthorized(error): the handler ends
\* there, with the stores as they were.
Reject(status, error) == [status |-> status, error |-> error, effect |-> "keep"]

\* The /join handler on the challenge store cs at time t: the status, the
\* error text and what it does to the store ("keep" the challenge, "delete" it
\* as expired, or "session": delete it and record a session).
JoinOutcome(cs, required, body, t) ==
  IF \/ Falsy(body.agent_id) \/ Falsy(body.pubkey) \/ Falsy(body.nonce)
     \/ body.signature = NoSignature \/ Falsy(body.timestamp.form)
  THEN Reject(400, "agent_id, pubkey, nonce, signature, timestamp are required")
  ELSE IF body.nonce \notin DOMAIN cs
  THEN Reject(401, "challenge not found or expired")
  ELSE
  LET challenge == cs[body.nonce]
      challengeExpiry == DateParse(challenge.expiresAt)
      timestampMs == DateParse(body.timestamp)
      message == buildJoinMessage(challenge.agentId, challenge.pubkey, challenge.nonce,
                                  challenge.hiveId, challenge.expiresAt, body.timestamp)
  IN
  IF challenge.agentId # body.agent_id \/ challenge.pubkey # body.pubkey
  THEN Reject(401, "challenge does not match agent_id or pubkey")
  ELSE IF challenge.hiveId # (IF body.hive_id = NoHive THEN challenge.hiveId ELSE body.hive_id)
  THEN Reject(401, "hive_id mismatch")
  ELSE IF challenge.expiresAt #
            (IF body.expires_at.form = Undef THEN challenge.expiresAt ELSE body.expires_at)
  THEN Reject(401, "expires_at mismatch")
  ELSE IF challengeExpired(challengeExpiry, t)
  THEN [status |-> 401, error |-> "challenge expired", effect |-> "delete"]
  ELSE IF timestampMs = NaN
  THEN Reject(400, "timestamp must be an ISO string")
  ELSE IF AbsDiffExceeds(t, timestampMs, MAX_CLOCK_SKEW_MS)
  THEN Reject(401, "timestamp outside allowed clock skew")
  ELSE IF (required \/ deviceFieldsProvided(body.device)) /\ deviceFieldMissing(body.device)
  THEN Reject(401, "missing OpenClaw device proof fields")
  ELSE IF /\ (required \/ deviceFieldsProvided(body.device))
          /\ ~verifyOpenClawDeviceProof(body.device, t)
  THEN Reject(401, "invalid OpenClaw device proof")
  ELSE IF ~verifyMessage(message, body.signature, challenge.pubkey)
  THEN Reject(401, "invalid signature")
  ELSE [status |-> 200, error |-> "", effect |-> "session"]

\* The session token: a UUID, prefixed with "<hiveId>." by the Worker.
MintToken(n, hiveId, uuid) ==
  IF kind[n[1]] = "bun" THEN <<uuid>> ELSE hiveId \o <<uuid>>

\* POST /join arrives: the Worker's fetch writes this.hiveId; then the handler
\* waits for the body (await readJson).
JoinArrive(d, body) ==
  LET n == RouteByBody(d, body.hive_id) IN
  /\ InputGateOpen(n, NoFlow)
  /\ thisHiveId' = SetHive(n)
  /\ flows' = MapPut(flows, FreshFlow, [NewFlow("join", n) EXCEPT !.body = body])
  /\ resp' = [op |-> "none"]
  /\ UNCHANGED <<now, ticks, kind, peers, proofRequired, gossipToken, envInterval, challenges, sessions,
                 messages, messageIds, nextMessageId, peerCursors, alarm, uuids,
                 issued, consumed>>

\* /join, its body read: the checks and, when all pass, the challenge
\* deleted, the session stored, ensureAlarm and the answer.
Join(f) ==
  LET fl == flows[f]
      n == fl.at
      body == fl.body
      out == JoinOutcome(challenges[n], proofRequired[n[1]], body, now)
      challenge == challenges[n][body.nonce]
      token == MintToken(n, challenge.hiveId, UUID(uuids + 1))
      session == [agentId |-> challenge.agentId,
                  pubkey |-> challenge.pubkey,
                  hiveId |-> challenge.hiveId,
                  expiresAt |-> now + SESSION_TTL_MS]
  IN
  /\ fl.kind = "join" /\ fl.pc = "body"
  /\ InputGateOpen(n, f)
  /\ flows' = MapDelete(flows, {f})
  /\ CASE out.effect = "session" ->
            /\ uuids' = uuids + 1
            /\ challenges' = [challenges EXCEPT ![n] = MapDelete(@, {body.nonce})]
            /\ sessions' = [sessions EXCEPT ![n] = MapPut(@, token, session)]
            /\ consumed' = consumed \cup {body.nonce}
            /\ alarm' = ensureAlarm(n, now)
            /\ resp' = [op |-> "join", at |-> n, status |-> 200, nonce |-> body.nonce,
                        body |-> body, error |-> "", session_token |-> token,
                        expires_at |-> ToISOString(session.expiresAt),
                        agent_id |-> session.agentId, hive_id |-> session.hiveId]
       [] out.effect = "delete" ->
            /\ challenges' = [challenges EXCEPT ![n] = MapDelete(@, {body.nonce})]
            /\ resp' = [op |-> "join", at |-> n, status |-> out.status,
                        nonce |-> body.nonce, error |-> out.error]
            /\ UNCHANGED <<uuids, sessions, consumed, alarm>>
       [] out.effect = "keep" ->
            /\ resp' = [op |-> "join", at |-> n, status |-> out.status,
                        nonce |-> body.nonce, error |-> out.error]
            /\ UNCHANGED <<uuids, challenges, sessions, consumed, alarm>>
  /\ UNCHANGED <<now, ticks, kind, peers, proofRequired, gossipToken, envInterval, thisHiveId, messages,
                 messageIds, nextMessageId, peerCursors, issued>>

----------------------------------------------------------------------------
\* Session store.

requireStored(ss, header, t) ==
  LET token == parseAuthToken(header) IN
  IF token = NoToken \/ token \notin DOMAIN ss THEN NoToken ELSE token

\* requireSession: the token whose session is returned, NoToken for null.
requireSession(ss, header, t) ==
  LET token == parseAuthToken(header) IN
  IF token = NoToken THEN NoToken
  ELSE IF token \notin DOMAIN ss THEN NoToken
  ELSE IF ss[token].expiresAt < t THEN NoToken
  ELSE token

evictNothing(ss, header, t) == ss

\* requireSession's effect on the store: an expired session is deleted.
evictSession(ss, header, t) ==
  LET token == parseAuthToken(header) IN
  IF token # NoToken /\ token \in DOMAIN ss /\ ss[token].expiresAt < t
  THEN MapDelete(ss, {token})
  ELSE ss

----------------------------------------------------------------------------
\* Message store.  A store is [messages, messageIds, nextMessageId]; the
\* Worker keeps it as the keys msg:<id>, uid:<uid> and meta:nextMessageId.

StoreOf(n) == [messages |-> messages[n], messageIds |-> messageIds[n],
               nextMessageId |-> nextMessageId[n]]

\* {id, ...input}: the id of the spread.
SpreadId(id, input) == IF "id" \in DOMAIN input THEN input.id ELSE id

storeMessageUnindexed(store, input) ==
  LET message == [id |-> SpreadId(store.nextMessageId, input), uid |-> input.uid, ts |-> input.ts,
                  createdAtMs |-> input.createdAtMs, agentId |-> input.agentId,
                  hiveId |-> input.hiveId, content |-> input.content,
                  channel |-> input.channel, source |-> input.source]
  IN [stored |-> TRUE, message |-> message,
      store |-> [messages |-> Append(store.messages, message),
                 messageIds |-> store.messageIds,
                 nextMessageId |-> store.nextMessageId + 1]]

storeMessageOverLast(store, input) ==
  IF input.uid \in store.messageIds
  THEN [stored |-> FALSE, store |-> store]
  ELSE LET message == [id |-> Max(store.nextMessageId - 1, 1), uid |-> input.uid,
                       ts |-> input.ts, createdAtMs |-> input.createdAtMs,
                       agentId |-> input.agentId, hiveId |-> input.hiveId,
                       content |-> input.content, channel |-> input.channel,
                       source |-> input.source]
       IN [stored |-> TRUE, message |-> message,
           store |-> [messages |-> <<message>>,
                      messageIds |-> {message.uid},
                      nextMessageId |-> store.nextMessageId]]

\* storeMessage: [stored, message, store].  The record is
\* {id: <the number taken>, ...input}: an id among the fields of the input
\* takes the place of the number, which is used up all the same.
storeMessage(store, input) ==
  IF input.uid \in store.messageIds
  THEN [stored |-> FALSE, store |-> store]
  ELSE LET message == [id |-> SpreadId(store.nextMessageId, input),
                       uid |-> input.uid,
                       ts |-> input.ts,
                       createdAtMs |-> input.createdAtMs,
                       agentId |-> input.agentId,
                       hiveId |-> input.hiveId,
                       content |-> input.content,
                       channel |-> input.channel,
                       source |-> input.source]
       IN [stored |-> TRUE,
           message |-> message,
           store |-> [messages |-> Append(store.messages, message),
                      messageIds |-> store.messageIds \cup {message.uid},
                      nextMessageId |-> store.nextMessageId + 1]]

----------------------------------------------------------------------------
\* POST /message

\* POST /message arrives: requireSession runs (an expired session is
\* deleted) and a request without a session is answered 401; otherwise the
\* handler keeps the session it read and waits for the body (await readJson).
MessageArrive(d, header, body) ==
  LET n == RouteByToken(d, header)
      token == requireSession(sessions[n], header, now)
  IN
  /\ InputGateOpen(n, NoFlow)
  /\ thisHiveId' = SetHive(n)
  /\ sessions' = [sessions EXCEPT ![n] = evictSession(@, header, now)]
  /\ IF token = NoToken
     THEN /\ resp' = [op |-> "message", at |-> n, status |-> 401,
                      token |-> parseAuthToken(header)]
          /\ flows' = flows
     ELSE /\ flows' = MapPut(flows, FreshFlow,
                             [NewFlow("message", n) EXCEPT !.body = body, !.token = token,
                                                           !.session = sessions[n][token]])
          /\ resp' = [op |-> "none"]
  /\ UNCHANGED <<now, ticks, kind, peers, proofRequired, gossipToken, envInterval, challenges,
                 messages, messageIds, nextMessageId, peerCursors, alarm, uuids,
                 issued, consumed>>

\* /message, its body read: the record is made with the clock of this
\* moment and the session read on arrival, and stored.
PostMessage(f) ==
  LET fl == flows[f]
      n == fl.at
      body == fl.body
      token == fl.token
      session == fl.session
      r == storeMessage(StoreOf(n),
             [uid |-> UUID(uuids + 1),
              ts |-> ToISOString(now),
              createdAtMs |-> now,
              agentId |-> session.agentId,
              hiveId |-> session.hiveId,
              content |-> body.content,
              channel |-> IF body.channel = Undef THEN "default" ELSE body.channel,
              source |-> "local"])
  IN
  /\ fl.kind = "message" /\ fl.pc = "body"
  /\ InputGateOpen(n, f)
  /\ flows' = MapDelete(flows, {f})
  /\ IF Falsy(body.content)
     THEN /\ resp' = [op |-> "message", at |-> n, status |-> 400, token |-> token]
          /\ UNCHANGED <<uuids, messages, messageIds, nextMessageId, alarm>>
     ELSE /\ uuids' = uuids + 1
          /\ messages' = [messages EXCEPT ![n] = r.store.messages]
          /\ messageIds' = [messageIds EXCEPT ![n] = r.store.messageIds]
          /\ nextMessageId' = [nextMessageId EXCEPT ![n] = r.store.nextMessageId]
          /\ IF r.stored
             THEN /\ alarm' = ensureAlarm(n, now)
                  /\ resp' = [op |-> "message", at |-> n, status |-> 200,
                              token |-> token, message |-> r.message]
             ELSE /\ alarm' = alarm
                  /\ resp' = [op |-> "message", at |-> n, status |-> 500,
                              token |-> token]
  /\ UNCHANGED <<now, ticks, kind, peers, proofRequired, gossipToken, envInterval, thisHiveId, challenges,
                 sessions, peerCursors, issued, consumed>>

----------------------------------------------------------------------------
\* GET /messages?since=&limit=

\* ToIntegerOrInfinity: NaN is 0, otherwise truncation toward zero.
ToInteger(x) ==
  IF x.nan THEN 0
  ELSE IF x.twice >= 0 THEN x.twice \div 2 ELSE -((-x.twice) \div 2)

\* Array.prototype.slice(-limit).
SliceLast(seq, limit) ==
  LET rel == -ToInteger(limit)
      start == IF rel < 0 THEN Max(Len(seq) + rel, 0) ELSE Min(rel, Len(seq))
  IN SubSeq(seq, start + 1, Len(seq))

\* msg.id > (Number.isNaN(since) ? 0 : since)
AfterSince(msg, since) == 2 * msg.id > (IF since.nan THEN 0 ELSE since.twice)

\* Math.min(MAX_MESSAGES_LIMIT, Math.max(1, Number(limitParam))), default "50".
MessagesLimit(limitParam) ==
  MathMin(Num(MAX_MESSAGES_LIMIT),
          MathMax(Num(1), IF limitParam = Absent THEN Num(50) ELSE limitParam))

SinceOf(sinceParam) == IF sinceParam = Absent THEN Num(0) ELSE sinceParam

\* The Bun server: filter by hive and cursor, then the last `limit`.
BunReadSince(msgs, hiveId, since, limit) ==
  SliceLast(SelectSeq(msgs, LAMBDA m : m.hiveId = hiveId /\ AfterSince(m, since)), limit)

\* storage.list({prefix, limit, reverse: true}) with an integer limit k >= 1:
\* the k entries with the largest keys (returned here in ascending order).
ListLast(msgs, k) == SubSeq(msgs, Max(Len(msgs) - k, 0) + 1, Len(msgs))

\* The Worker: the last `limit` records of the object, then the cursor filter.
WorkerReadSince(msgs, since, k) ==
  SelectSeq(ListLast(msgs, k), LAMBDA m : AfterSince(m, since))

\* What storage.list does with a limit that is no integer is the runtime's
\* choice: it throws, or it lists with the limit truncated (no limit for NaN).
Unlimited == -1
ListLimits(limit) ==
  IF limit.nan
  THEN {[throws |-> TRUE, k |-> 0], [throws |-> FALSE, k |-> Unlimited]}
  ELSE IF limit.twice % 2 = 1
  THEN {[throws |-> TRUE, k |-> 0], [throws |-> FALSE, k |-> ToInteger(limit)]}
  ELSE {[throws |-> FALSE, k |-> ToInteger(limit)]}

GetMessages(d, header, sinceParam, limitParam) ==
  LET n == RouteByToken(d, header)
      token == requireSession(sessions[n], header, now)
      session == sessions[n][token]
      since == SinceOf(sinceParam)
      limit == MessagesLimit(limitParam)
      asked == parseAuthToken(header)
  IN
  /\ thisHiveId' = SetHive(n)
  /\ sessions' = [sessions EXCEPT ![n] = evictSession(@, header, now)]
  /\ IF token = NoToken
     THEN resp' = [op |-> "messages", at |-> n, status |-> 401, token |-> asked]
     ELSE IF kind[d] = "bun"
     THEN resp' = [op |-> "messages", at |-> n, status |-> 200, token |-> asked,
                   since |-> sinceParam, limit |-> limitParam,
                   hive_id |-> session.hiveId,
                   messages |-> BunReadSince(messages[n], session.hiveId, since, limit)]
     ELSE \E o \in ListLimits(limit) :
            resp' = IF o.throws
                    THEN [op |-> "messages", at |-> n, status |-> 500, token |-> asked]
                    ELSE [op |-> "messages", at |-> n, status |-> 200, token |-> asked,
                          since |-> sinceParam, limit |-> limitParam,
                          hive_id |-> session.hiveId,
                          messages |-> WorkerReadSince(messages[n], since,
                                         IF o.k = Unlimited THEN Len(messages[n]) ELSE o.k)]
  /\ UNCHANGED <<now, ticks, kind, peers, proofRequired, gossipToken, envInterval, flows, challenges, messages, messageIds,
                 nextMessageId, peerCursors, alarm, uuids, issued, consumed>>

----------------------------------------------------------------------------
\* Gossip records.  An entry of a pushed or pulled batch is a JSON object;
\* a missing string field is Undef, a missing hiveId NoHive, a missing ts
\* NoTime, and createdAtMs is Number(msg.createdAtMs) (NaN when missing).

\* Number(msg.createdAtMs) of an entry whose createdAtMs is 1e999 (JSON.parse
\* reads it as Infinity), "Infinity" or their negatives: no handler tells
\* the one infinity from the other.
Infinity == 999999999

\* Number.isFinite(x): false for NaN and for an infinity.
NumberIsFinite(x) == x # NaN /\ x # Infinity

\* Finite numbers outside the range of Date (|t| > 8.64e15): one above it,
\* such as 1e20, and one below it, such as -1e20.
OutOfRange == 999999998
BelowRange == -999999998

\* new Date(createdAtMs || Date.now()).toISOString() throws a RangeError
\* (invalid time value) when the entry has no ts and its createdAtMs is
\* outside the range of Date or infinite.
EntryThrows(msg) ==
  msg.ts.form = Undef /\ msg.createdAtMs \in {OutOfRange, BelowRange, Infinity}

\* ts = msg.ts ?? new Date(createdAtMs || Date.now()).toISOString()
EntryTs(msg, t) ==
  IF msg.ts.form # Undef THEN msg.ts
  ELSE ToISOString(IF msg.createdAtMs = NaN \/ msg.createdAtMs = 0 THEN t
                   ELSE msg.createdAtMs)

NormalizeAsLocal(msg, t) ==
  [uid |-> msg.uid,
   ts |-> EntryTs(msg, t),
   createdAtMs |-> IF NumberIsFinite(msg.createdAtMs) THEN msg.createdAtMs
                   ELSE DateParse(EntryTs(msg, t)),
   agentId |-> msg.agentId,
   hiveId |-> msg.hiveId,
   content |-> msg.content,
   channel |-> IF msg.channel = Undef THEN "default" ELSE msg.channel,
   source |-> "local"]

\* The fields handed to storeMessage by pollPeers and by /gossip/push.
Normalize(msg, t) ==
  [uid |-> msg.uid,
   ts |-> EntryTs(msg, t),
   createdAtMs |-> IF NumberIsFinite(msg.createdAtMs) THEN msg.createdAtMs
                   ELSE DateParse(EntryTs(msg, t)),
   agentId |-> msg.agentId,
   hiveId |-> msg.hiveId,
   content |-> msg.content,
   channel |-> IF msg.channel = Undef THEN "default" ELSE msg.channel,
   source |-> "gossip"]

\* The record pollPeers hands to storeMessage: the Bun server builds a whole
\* HiveMessage with id: 0, the Worker passes the fields without an id.
PollRecord(k, msg, t) ==
  LET r == Normalize(msg, t) IN
  IF k = "bun"
  THEN [id |-> 0, uid |-> r.uid, ts |-> r.ts, createdAtMs |-> r.createdAtMs,
        agentId |-> r.agentId, hiveId |-> r.hiveId, content |-> r.content,
        channel |-> r.channel, source |-> r.source]
  ELSE r

\* JSON.stringify then JSON.parse of a stored message: NaN becomes null,
\* which Number() reads as 0.
FromJson(m) ==
  [uid |-> m.uid, ts |-> m.ts,
   createdAtMs |-> IF m.createdAtMs = NaN THEN 0 ELSE m.createdAtMs,
   agentId |-> m.agentId, hiveId |-> m.hiveId, content |-> m.content,
   channel |-> m.channel, source |-> m.source]

RECURSIVE MapSeq(_, _)
MapSeq(Op(_), seq) ==
  IF seq = <<>> THEN <<>> ELSE <<Op(Head(seq))>> \o MapSeq(Op, Tail(seq))

----------------------------------------------------------------------------
\* GET /gossip/messages?hive_id=&since_ms=   (the feed a peer pulls)

authorizeAnyone(d, header) == TRUE

\* authorizeGossip: without a configured token every request passes; with one
\* the x-hivemind-gossip header must equal it.
authorizeGossip(d, header) ==
  IF Falsy(gossipToken[d]) THEN TRUE ELSE header = gossipToken[d]

\* The x-hivemind-gossip header pollPeers sends: the poller's own token, no
\* header without one.
PollHeader(d) == IF Falsy(gossipToken[d]) THEN Undef ELSE gossipToken[d]

\* msg.createdAtMs >= (Number.isNaN(sinceMs) ? 0 : sinceMs), false for a
\* record whose createdAtMs is NaN.
AtOrAfter(msg, sinceMs) ==
  /\ msg.createdAtMs # NaN
  /\ 2 * msg.createdAtMs >= (IF sinceMs.nan THEN 0 ELSE sinceMs.twice)

\* Math.min(MAX_GOSSIP_BATCH, Math.max(1, Number(limitParam))), default
\* String(MAX_GOSSIP_BATCH); only the Worker reads the parameter.
FeedLimit(limitParam) ==
  MathMin(Num(MAX_GOSSIP_BATCH),
          MathMax(Num(1), IF limitParam = Absent THEN Num(MAX_GOSSIP_BATCH) ELSE limitParam))

\* The messages of the answer.  The Bun server filters its whole array by hive
\* and createdAtMs; the Worker lists the last k records of the object and
\* filters them by createdAtMs.
GossipFeed(d, hive_id, sinceMs, k) ==
  LET msgs == messages[Node(d, hive_id)] IN
  IF kind[d] = "bun"
  THEN SelectSeq(msgs, LAMBDA m : m.hiveId = hive_id /\ AtOrAfter(m, sinceMs))
  ELSE SelectSeq(ListLast(msgs, k), LAMBDA m : AtOrAfter(m, sinceMs))

\* The feed a poll pulls: pollPeers sends since_ms=String(cursor) and no limit.
PolledFeed(peer, hive, cursor) == GossipFeed(peer, hive, Num(cursor), MAX_GOSSIP_BATCH)

\* The handler: a request the guard rejects gets 401 and no messages.
GossipMessages(d, header, hive_id, sinceParam, limitParam) ==
  LET hiveId == IF hive_id = NoHive THEN HIVE_ID ELSE hive_id
      n == Node(d, hiveId)
      hive == SetHive(n)
      sinceMs == SinceOf(sinceParam)
      limit == FeedLimit(limitParam)
      rejected == [op |-> "feed", at |-> n, status |-> 401, header |-> header,
                   asked |-> hiveId, since_ms |-> sinceParam, limit |-> limitParam,
                   messages |-> <<>>]
      answer(k) == [op |-> "feed", at |-> n, status |-> 200, header |-> header,
                    asked |-> hiveId, since_ms |-> sinceParam, limit |-> limitParam,
                    hive_id |-> IF kind[d] = "bun" THEN hiveId ELSE hive[n],
                    messages |-> GossipFeed(d, hiveId, sinceMs, k)]
  IN
  /\ thisHiveId' = hive
  /\ IF ~authorizeGossip(d, header) THEN resp' = rejected
     ELSE IF kind[d] = "bun" THEN resp' = answer(0)
     ELSE \E o \in ListLimits(limit) :
            resp' = IF o.throws
                    THEN [op |-> "feed", at |-> n, status |-> 500, header |-> header,
                          asked |-> hiveId, since_ms |-> sinceParam, limit |-> limitParam,
                          messages |-> <<>>]
                    ELSE answer(IF o.k = Unlimited THEN Len(messages[n]) ELSE o.k)
  /\ UNCHANGED <<now, ticks, kind, peers, proofRequired, gossipToken, envInterval, flows, challenges, sessions,
                 messages, messageIds, nextMessageId, peerCursors, alarm, uuids,
                 issued, consumed>>

----------------------------------------------------------------------------
\* POST /gossip/push

PushSkips(msg, hive) ==
  \/ Falsy(msg.uid) \/ Falsy(msg.agentId) \/ msg.hiveId = NoHive \/ Falsy(msg.content)
  \/ msg.hiveId # hive

\* The loop over the batch: [store, accepted, skipped, threw]; an entry that
\* throws ends the loop and the handler.
RECURSIVE PushLoop(_, _, _, _, _, _)
PushLoop(incoming, store, hive, t, accepted, skipped) ==
  IF incoming = <<>>
  THEN [store |-> store, accepted |-> accepted, skipped |-> skipped, threw |-> FALSE]
  ELSE LET msg == Head(incoming) IN
       IF PushSkips(msg, hive)
       THEN PushLoop(Tail(incoming), store, hive, t, accepted, skipped + 1)
       ELSE IF EntryThrows(msg)
       THEN [store |-> store, accepted |-> accepted, skipped |-> skipped, threw |-> TRUE]
       ELSE LET r == storeMessage(store, Normalize(msg, t)) IN
            IF r.stored
            THEN PushLoop(Tail(incoming), r.store, hive, t, accepted + 1, skipped)
            ELSE PushLoop(Tail(incoming), r.store, hive, t, accepted, skipped + 1)

\* POST /gossip/push arrives: the Worker's fetch writes this.hiveId, the
\* guard answers 401 to a request it rejects, and the handler waits for the
\* body (await readJson).
PushArrive(d, header, body) ==
  LET n == RouteByBody(d, body.hive_id) IN
  /\ InputGateOpen(n, NoFlow)
  /\ thisHiveId' = SetHive(n)
  /\ IF authorizeGossip(d, header)
     THEN /\ flows' = MapPut(flows, FreshFlow,
                             [NewFlow("push", n) EXCEPT !.todo = body.messages,
                                                        !.size = Len(body.messages),
                                                        !.header = header])
          /\ resp' = [op |-> "none"]
     ELSE /\ flows' = flows
          /\ resp' = [op |-> "push", at |-> n, status |-> 401, header |-> header,
                      size |-> Len(body.messages), accepted |-> 0, skipped |-> 0]
  /\ UNCHANGED <<now, ticks, kind, peers, proofRequired, gossipToken, envInterval, challenges, sessions,
                 messages, messageIds, nextMessageId, peerCursors, alarm, uuids,
                 issued, consumed>>

\* /gossip/push, its body read: the loop over the batch, ensureAlarm and the
\* answer, or the error answer of a handler that threw.
GossipPush(f) ==
  LET fl == flows[f]
      n == fl.at
      r == PushLoop(fl.todo, StoreOf(n), thisHiveId[n], now, 0, 0)
  IN
  /\ fl.kind = "push" /\ fl.pc = "body"
  /\ InputGateOpen(n, f)
  /\ flows' = MapDelete(flows, {f})
  /\ messages' = [messages EXCEPT ![n] = r.store.messages]
  /\ messageIds' = [messageIds EXCEPT ![n] = r.store.messageIds]
  /\ nextMessageId' = [nextMessageId EXCEPT ![n] = r.store.nextMessageId]
  /\ alarm' = IF r.threw THEN alarm ELSE ensureAlarm(n, now)
  /\ resp' = IF r.threw
             THEN [op |-> "push", at |-> n, status |-> 500, header |-> fl.header,
                   size |-> fl.size, accepted |-> 0, skipped |-> 0]
             ELSE [op |-> "push", at |-> n, status |-> 200, header |-> fl.header,
                   size |-> fl.size, accepted |-> r.accepted, skipped |-> r.skipped]
  /\ UNCHANGED <<now, ticks, kind, peers, proofRequired, gossipToken, envInterval, thisHiveId, challenges,
                 sessions, peerCursors, uuids, issued, consumed>>

----------------------------------------------------------------------------

\* The loop over one peer's batch: [store, maxSeen, threw]; an entry that
\* throws ends the loop in the catch of this peer.
RECURSIVE PollLoop(_, _, _, _, _, _)
PollLoop(k, incoming, store, hive, t, maxSeen) ==
  IF incoming = <<>> THEN [store |-> store, maxSeen |-> maxSeen, threw |-> FALSE]
  ELSE LET msg == Head(incoming) IN
       IF msg.hiveId # hive \/ Falsy(msg.uid)
       THEN PollLoop(k, Tail(incoming), store, hive, t, maxSeen)
       ELSE IF EntryThrows(msg)
       THEN [store |-> store, maxSeen |-> maxSeen, threw |-> TRUE]
       ELSE LET r == storeMessage(store, PollRecord(k, msg, t)) IN
            IF r.stored /\ NumberIsFinite(r.message.createdAtMs)
            THEN PollLoop(k, Tail(incoming), r.store, hive, t,
                          Max(maxSeen, r.message.createdAtMs))
            ELSE PollLoop(k, Tail(incoming), r.store, hive, t, maxSeen)

CursorOf(cursors, peer) == IF peer \in DOMAIN cursors THEN cursors[peer] ELSE 0

\* One peer of the cycle: [store, cursors] after pulling `peer`'s feed.
PollOne(k, peer, store, cursors, hive, t) ==
  LET sinceMs == CursorOf(cursors, peer)
      incoming == MapSeq(FromJson, PolledFeed(peer, hive, sinceMs))
      r == PollLoop(k, incoming, store, hive, t, sinceMs)
  IN [store |-> r.store,
      cursors |-> IF ~r.threw /\ r.maxSeen > sinceMs THEN MapPut(cursors, peer, r.maxSeen)
                  ELSE cursors]

\* The cycle over GOSSIP_PEERS, in order; a peer not in `up` fails its fetch
\* and is skipped.
RECURSIVE pollPeers(_, _, _, _, _, _, _)
pollPeers(k, ps, up, store, cursors, hive, t) ==
  IF ps = <<>> THEN [store |-> store, cursors |-> cursors]
  ELSE IF Head(ps) \notin up
  THEN pollPeers(k, Tail(ps), up, store, cursors, hive, t)
  ELSE LET r == PollOne(k, Head(ps), store, cursors, hive, t) IN
       pollPeers(k, Tail(ps), up, r.store, r.cursors, hive, t)

Range(seq) == {seq[i] : i \in DOMAIN seq}

\* The peers among `up` whose answer to deployment d's poll is ok: those
\* whose guard passes d's header.
Answering(d, up) == {p \in up : authorizeGossip(p, PollHeader(d))}

----------------------------------------------------------------------------
\* Handlers and poll cycles step by step.

\* The loop over the batch up to its next storeMessage call: the entries the
\* loop passes over with `continue`, then the record handed to storeMessage,
\* or the end of the batch.
RECURSIVE Advance(_, _, _)
Advance(fl, hive, t) ==
  IF fl.todo = <<>> THEN [fl EXCEPT !.pc = "finish"]
  ELSE LET msg == Head(fl.todo) IN
       IF fl.kind = "push" /\ PushSkips(msg, hive)
       THEN Advance([fl EXCEPT !.todo = Tail(@), !.skipped = @ + 1], hive, t)
       ELSE IF fl.kind = "poll" /\ (msg.hiveId # hive \/ Falsy(msg.uid))
       THEN Advance([fl EXCEPT !.todo = Tail(@)], hive, t)
       ELSE IF EntryThrows(msg)
       THEN [fl EXCEPT !.todo = <<>>, !.threw = TRUE,
                       !.pc = IF fl.kind = "push" THEN "finish" ELSE "next"]
       ELSE [fl EXCEPT !.todo = Tail(@), !.pc = "get-uid",
                       !.cur = IF fl.kind = "poll" THEN PollRecord(kind[fl.at[1]], msg, t)
                               ELSE Normalize(msg, t)]

\* storage.put of msg:<id>: the record under key id.
PutAt(msgs, id, m) ==
  IF id \in DOMAIN msgs THEN [msgs EXCEPT ![id] = m] ELSE Append(msgs, m)

\* pollPeers starts on a peer: the cursor is read and the fetch is sent.
StartFetch(fl, n, ps) ==
  [fl EXCEPT !.pc = "sent", !.peer = Head(ps), !.rest = Tail(ps), !.todo = <<>>,
             !.asked = thisHiveId[n], !.threw = FALSE,
             !.sinceMs = CursorOf(peerCursors[n], Head(ps)),
             !.maxSeen = CursorOf(peerCursors[n], Head(ps))]

\* setInterval fires in the Bun process: a cycle starts, whether or not an
\* earlier one is still waiting for its fetch.
TimerFires(d) ==
  LET n == <<d, ProcName>> IN
  /\ kind[d] = "bun"
  /\ peers[d] # <<>>
  /\ InputGateOpen(n, NoFlow)
  /\ flows' = MapPut(flows, FreshFlow, StartFetch(NewFlow("poll", n), n, peers[d]))
  /\ resp' = [op |-> "none"]
  /\ UNCHANGED <<now, ticks, kind, peers, proofRequired, gossipToken, envInterval, thisHiveId, challenges,
                 sessions, messages, messageIds, nextMessageId, peerCursors, alarm, uuids,
                 issued, consumed>>

\* The alarm of a Durable Object fires: alarm() starts pollPeers.  An object
\* runs one alarm() at a time.
AlarmFires(n) ==
  /\ kind[n[1]] = "worker"
  /\ n[2] # ProcName
  /\ alarm[n] # NoAlarm
  /\ now >= alarm[n]
  /\ InputGateOpen(n, NoFlow)
  /\ \A g \in DOMAIN flows : ~(flows[g].at = n /\ flows[g].kind = "poll")
  /\ alarm' = [alarm EXCEPT ![n] = NoAlarm]
  /\ flows' = MapPut(flows, FreshFlow, StartFetch(NewFlow("poll", n), n, peers[n[1]]))
  /\ resp' = [op |-> "none"]
  /\ UNCHANGED <<now, ticks, kind, peers, proofRequired, gossipToken, envInterval, thisHiveId, challenges,
                 sessions, messages, messageIds, nextMessageId, peerCursors, uuids,
                 issued, consumed>>

\* The peer answers the fetch of flow f: with its feed, or with 401 when its
\* guard rejects the poll's header.  Either answer is on its way to the poller,
\* whose pollPeers is still suspended at its fetch: "served" with the feed,
\* "refused" with the 401.
AbortCycle(fl) == [fl EXCEPT !.pc = "next", !.todo = <<>>, !.rest = <<>>]

\* pollPeers when the fetch threw, the status was not ok or the payload was
\* no JSON: the loop continues with the next peer.
AfterFailure(fl) == [fl EXCEPT !.pc = "next", !.todo = <<>>]

PeerServes(f) ==
  LET fl == flows[f] IN
  /\ fl.pc = "sent"
  /\ fl.peer \in Deployments
  /\ thisHiveId' = SetHive(Node(fl.peer, fl.asked))
  /\ flows' = IF authorizeGossip(fl.peer, PollHeader(fl.at[1]))
              THEN [flows EXCEPT ![f].pc = "served",
                                 ![f].todo = MapSeq(FromJson,
                                                    PolledFeed(fl.peer, fl.asked, fl.sinceMs))]
              ELSE [flows EXCEPT ![f].pc = "refused", ![f].todo = <<>>]
  /\ resp' = [op |-> "none"]
  /\ UNCHANGED <<now, ticks, kind, peers, proofRequired, gossipToken, envInterval, challenges, sessions,
                 messages, messageIds, nextMessageId, peerCursors, alarm, uuids,
                 issued, consumed>>

\* A peer that is no deployment of the model answers the fetch of flow f with
\* the messages `incoming`.
OutsideServes(f, incoming) ==
  LET fl == flows[f] IN
  /\ fl.pc = "sent"
  /\ fl.peer \notin Deployments
  /\ flows' = [flows EXCEPT ![f].pc = "served", ![f].todo = incoming]
  /\ resp' = [op |-> "none"]
  /\ UNCHANGED <<now, ticks, kind, peers, proofRequired, gossipToken, envInterval, thisHiveId, challenges,
                 sessions, messages, messageIds, nextMessageId, peerCursors, alarm, uuids,
                 issued, consumed>>

\* The fetch throws, or its answer is not ok or is no JSON: the catch, or
\* `continue`, ends the work on this peer.
FetchFails(f) ==
  LET fl == flows[f] IN
  /\ fl.pc \in {"sent", "served"}
  /\ InputGateOpen(fl.at, f)
  /\ flows' = [flows EXCEPT ![f] = AfterFailure(fl)]
  /\ resp' = [op |-> "none"]
  /\ UNCHANGED <<now, ticks, kind, peers, proofRequired, gossipToken, envInterval, thisHiveId, challenges,
                 sessions, messages, messageIds, nextMessageId, peerCursors, alarm, uuids,
                 issued, consumed>>

\* The answer's body (res.json) has arrived: the loop over the batch and the
\* cursor, written if maxSeen > sinceMs; an entry that throws ends the work on
\* this peer in the catch.
PollIngest(f) ==
  LET fl == flows[f]
      n == fl.at
      r == PollLoop(kind[n[1]], fl.todo, StoreOf(n), thisHiveId[n], now, fl.sinceMs)
  IN
  /\ fl.kind = "poll" /\ fl.pc = "served"
  /\ InputGateOpen(n, f)
  /\ messages' = [messages EXCEPT ![n] = r.store.messages]
  /\ messageIds' = [messageIds EXCEPT ![n] = r.store.messageIds]
  /\ nextMessageId' = [nextMessageId EXCEPT ![n] = r.store.nextMessageId]
  /\ peerCursors' = [peerCursors EXCEPT ![n] =
                       IF ~r.threw /\ r.maxSeen > fl.sinceMs THEN MapPut(@, fl.peer, r.maxSeen)
                       ELSE @]
  /\ flows' = [flows EXCEPT ![f].pc = "next", ![f].todo = <<>>, ![f].threw = r.threw,
                            ![f].maxSeen = r.maxSeen,
                            ![f].stored = @ + Len(r.store.messages) - Len(messages[n])]
  /\ resp' = [op |-> "none"]
  /\ UNCHANGED <<now, ticks, kind, peers, proofRequired, gossipToken, envInterval, thisHiveId, challenges,
                 sessions, alarm, uuids, issued, consumed>>

\* The awaited body (request.json, res.json) arrives and the loop begins.
BodyArrives(f) ==
  LET fl == flows[f] IN
  /\ fl.kind \in {"poll", "push"}
  /\ fl.pc = IF fl.kind = "poll" THEN "served" ELSE "body"
  /\ InputGateOpen(fl.at, f)
  /\ flows' = [flows EXCEPT ![f] = Advance(fl, thisHiveId[fl.at], now)]
  /\ resp' = [op |-> "none"]
  /\ UNCHANGED <<now, ticks, kind, peers, proofRequired, gossipToken, envInterval, thisHiveId, challenges,
                 sessions, messages, messageIds, nextMessageId, peerCursors, alarm, uuids,
                 issued, consumed>>

\* storeMessage: is the uid stored?  If so it returns null and the loop goes on.
StoreGetUid(f) ==
  LET fl == flows[f] IN
  /\ fl.pc = "get-uid"
  /\ InputGateOpen(fl.at, f)
  /\ flows' = [flows EXCEPT ![f] =
                 IF fl.cur.uid \in messageIds[fl.at]
                 THEN Advance([fl EXCEPT !.skipped = IF fl.kind = "push" THEN @ + 1 ELSE @],
                              thisHiveId[fl.at], now)
                 ELSE [fl EXCEPT !.pc = "get-next"]]
  /\ resp' = [op |-> "none"]
  /\ UNCHANGED <<now, ticks, kind, peers, proofRequired, gossipToken, envInterval, thisHiveId, challenges,
                 sessions, messages, messageIds, nextMessageId, peerCursors, alarm, uuids,
                 issued, consumed>>

\* nextMessageId: the counter is read ...
StoreGetNext(f) ==
  LET fl == flows[f] IN
  /\ fl.pc = "get-next"
  /\ InputGateOpen(fl.at, f)
  /\ flows' = [flows EXCEPT ![f].pc = "put-next", ![f].id = nextMessageId[fl.at]]
  /\ resp' = [op |-> "none"]
  /\ UNCHANGED <<now, ticks, kind, peers, proofRequired, gossipToken, envInterval, thisHiveId, challenges,
                 sessions, messages, messageIds, nextMessageId, peerCursors, alarm, uuids,
                 issued, consumed>>

\* ... and written back, one higher.
StorePutNext(f) ==
  LET fl == flows[f] IN
  /\ fl.pc = "put-next"
  /\ InputGateOpen(fl.at, f)
  /\ nextMessageId' = [nextMessageId EXCEPT ![fl.at] = fl.id + 1]
  /\ flows' = [flows EXCEPT ![f].pc = "put-msg"]
  /\ resp' = [op |-> "none"]
  /\ UNCHANGED <<now, ticks, kind, peers, proofRequired, gossipToken, envInterval, thisHiveId, challenges,
                 sessions, messages, messageIds, peerCursors, alarm, uuids,
                 issued, consumed>>

\* storeMessage: the record and its uid are written; the loop goes on.
StorePutMsg(f) ==
  LET fl == flows[f]
      message == [id |-> SpreadId(fl.id, fl.cur), uid |-> fl.cur.uid, ts |-> fl.cur.ts,
                  createdAtMs |-> fl.cur.createdAtMs, agentId |-> fl.cur.agentId,
                  hiveId |-> fl.cur.hiveId, content |-> fl.cur.content,
                  channel |-> fl.cur.channel, source |-> fl.cur.source]
  IN
  /\ fl.pc = "put-msg"
  /\ InputGateOpen(fl.at, f)
  /\ messages' = [messages EXCEPT ![fl.at] = PutAt(@, fl.id, message)]
  /\ messageIds' = [messageIds EXCEPT ![fl.at] = @ \cup {message.uid}]
  /\ flows' = [flows EXCEPT ![f] =
                 Advance([fl EXCEPT !.accepted = @ + 1, !.stored = @ + 1,
                                    !.maxSeen = IF fl.kind = "poll" /\ NumberIsFinite(message.createdAtMs)
                                                THEN Max(@, message.createdAtMs) ELSE @],
                         thisHiveId[fl.at], now)]
  /\ resp' = [op |-> "none"]
  /\ UNCHANGED <<now, ticks, kind, peers, proofRequired, gossipToken, envInterval, thisHiveId, challenges,
                 sessions, nextMessageId, peerCursors, alarm, uuids,
                 issued, consumed>>

\* /gossip/push ends: ensureAlarm and the answer, or the error answer of a
\* handler that threw.
PushFinish(f) ==
  LET fl == flows[f] IN
  /\ fl.kind = "push" /\ fl.pc = "finish"
  /\ InputGateOpen(fl.at, f)
  /\ alarm' = IF fl.threw THEN alarm ELSE ensureAlarm(fl.at, now)
  /\ flows' = MapDelete(flows, {f})
  /\ resp' = IF fl.threw
             THEN [op |-> "push", at |-> fl.at, status |-> 500, header |-> fl.header,
                   size |-> fl.size, accepted |-> 0, skipped |-> 0]
             ELSE [op |-> "push", at |-> fl.at, status |-> 200, header |-> fl.header,
                   size |-> fl.size, accepted |-> fl.accepted, skipped |-> fl.skipped]
  /\ UNCHANGED <<now, ticks, kind, peers, proofRequired, gossipToken, envInterval, thisHiveId, challenges,
                 sessions, messages, messageIds, nextMessageId, peerCursors, uuids,
                 issued, consumed>>

\* pollPeers after the loop over one peer's batch: the cursor is written if
\* maxSeen > sinceMs.
CursorPut(f) ==
  LET fl == flows[f] IN
  /\ fl.kind = "poll" /\ fl.pc = "finish"
  /\ InputGateOpen(fl.at, f)
  /\ peerCursors' = [peerCursors EXCEPT ![fl.at] =
                       IF fl.maxSeen > fl.sinceMs THEN MapPut(@, fl.peer, fl.maxSeen) ELSE @]
  /\ flows' = [flows EXCEPT ![f].pc = "next"]
  /\ resp' = [op |-> "none"]
  /\ UNCHANGED <<now, ticks, kind, peers, proofRequired, gossipToken, envInterval, thisHiveId, challenges,
                 sessions, messages, messageIds, nextMessageId, alarm, uuids,
                 issued, consumed>>

\* pollPeers goes on to the next peer, or the cycle ends (alarm() then calls
\* ensureAlarm).  It does so after the work on a peer, and when the fetch
\* returns an answer that is not ok (`if (!res.ok) continue`).
NextPeer(f) ==
  LET fl == IF flows[f].pc = "refused" THEN AfterFailure(flows[f]) ELSE flows[f] IN
  /\ flows[f].kind = "poll" /\ flows[f].pc \in {"next", "refused"}
  /\ InputGateOpen(fl.at, f)
  /\ IF fl.rest # <<>>
     THEN /\ flows' = [flows EXCEPT ![f] = StartFetch(fl, fl.at, fl.rest)]
          /\ resp' = [op |-> "none"]
          /\ alarm' = alarm
     ELSE /\ flows' = MapDelete(flows, {f})
          /\ alarm' = ensureAlarm(fl.at, now)
          /\ resp' = [op |-> "poll", at |-> fl.at, stored |-> fl.stored]
  /\ UNCHANGED <<now, ticks, kind, peers, proofRequired, gossipToken, envInterval, thisHiveId, challenges,
                 sessions, messages, messageIds, nextMessageId, peerCursors, uuids,
                 issued, consumed>>

\* The runtime drops an idle Durable Object from memory and constructs it
\* again for the next event: the constructor sets hiveId from env.HIVE_ID.
Reconstruct(n) ==
  /\ kind[n[1]] = "worker"
  /\ n[2] # ProcName
  /\ \A g \in DOMAIN flows : flows[g].at # n
  /\ thisHiveId[n] # HIVE_ID
  /\ thisHiveId' = [thisHiveId EXCEPT ![n] = HIVE_ID]
  /\ resp' = [op |-> "none"]
  /\ UNCHANGED <<now, ticks, kind, peers, proofRequired, gossipToken, envInterval, flows, challenges, sessions, messages,
                 messageIds, nextMessageId, peerCursors, alarm, uuids, issued, consumed>>

\* Time passes.
Tick(delta) ==
  /\ now' = now + delta
  /\ ticks' = ticks + 1
  /\ resp' = [op |-> "none"]
  /\ UNCHANGED <<kind, peers, proofRequired, gossipToken, envInterval, flows, thisHiveId, challenges, sessions, messages,
                 messageIds, nextMessageId, peerCursors, alarm, uuids, issued, consumed>>

----------------------------------------------------------------------------
\* Requests.

T0 == 1000 * 1000

Agents == {"agent-001", "agent-002"}

ChallengeBodies ==
  {[agent_id |-> "agent-001", pubkey |-> K1, hive_id |-> H1],
   [agent_id |-> "agent-001", pubkey |-> K1, hive_id |-> NoHive],
   [agent_id |-> "agent-002", pubkey |-> K2, hive_id |-> H2],
   [agent_id |-> Undef, pubkey |-> K1, hive_id |-> H1],
   [agent_id |-> "agent-001", pubkey |-> Undef, hive_id |-> H1],
   [agent_id |-> "agent-001", pubkey |-> Kshort, hive_id |-> H1],
   [agent_id |-> "agent-001", pubkey |-> Kbad, hive_id |-> H1]}

OtherOf(x, S) == CHOOSE y \in S : y # x

\* The device proof a gateway issues at time t.
DeviceProof(t) ==
  [publicKey |-> DeviceKey, signature |-> signMessage("device-nonce", DeviceKey),
   nonce |-> "device-nonce", signedAt |-> ToISOString(t)]

DeviceProofs(t) ==
  {NoDevice,
   DeviceProof(t),
   DeviceProof(t - OPENCLAW_DEVICE_PROOF_TTL_MS),
   DeviceProof(t - OPENCLAW_DEVICE_PROOF_TTL_MS - 1),
   [DeviceProof(t) EXCEPT !.signature = signMessage("other-nonce", DeviceKey)],
   [DeviceProof(t) EXCEPT !.nonce = Undef],
   [NoDevice EXCEPT !.publicKey = DeviceKey]}

\* What the client of client.ts sends for challenge c at time t: the fields of
\* the /challenge response and the signature of its key over them.
ClientJoin(c, timestamp, device) ==
  [agent_id |-> c.agentId, pubkey |-> c.pubkey, nonce |-> c.nonce,
   signature |-> signMessage(buildJoinMessage(c.agentId, c.pubkey, c.nonce, c.hiveId,
                                              c.expiresAt, timestamp), c.pubkey),
   timestamp |-> timestamp, hive_id |-> c.hiveId, expires_at |-> c.expiresAt,
   device |-> device]

Timestamps(t) ==
  {ToISOString(t),
   ToISOString(t - MAX_CLOCK_SKEW_MS), ToISOString(t - MAX_CLOCK_SKEW_MS - 1),
   ToISOString(t + MAX_CLOCK_SKEW_MS), ToISOString(t + MAX_CLOCK_SKEW_MS + 1),
   [ms |-> t, form |-> "alt"], [ms |-> NaN, form |-> "bad"]}

\* Join requests for challenge c: the client's, and requests that differ from
\* it in one place.
JoinBodiesFor(c, t, device) ==
  LET honest == ClientJoin(c, ToISOString(t), device)
      otherKey == OtherOf(c.pubkey, {K1, K2})
  IN {honest}
     \cup {ClientJoin(c, ts, device) : ts \in Timestamps(t)}
     \cup {ClientJoin(c, ToISOString(t), dev) : dev \in DeviceProofs(t)}
     \cup {[honest EXCEPT !.hive_id = NoHive],
           [honest EXCEPT !.hive_id = OtherOf(c.hiveId, Hives)],
           [honest EXCEPT !.expires_at = NoTime],
           [honest EXCEPT !.expires_at = [ms |-> c.expiresAt.ms, form |-> "alt"]],
           [honest EXCEPT !.expires_at = ToISOString(c.expiresAt.ms + 1)],
           [honest EXCEPT !.agent_id = OtherOf(c.agentId, Agents)],
           [honest EXCEPT !.pubkey = otherKey],
           ClientJoin([c EXCEPT !.pubkey = otherKey], ToISOString(t), device),
           [honest EXCEPT !.signature = signMessage(honest.signature.over, otherKey)],
           [honest EXCEPT !.signature =
              signMessage(buildJoinMessage(c.agentId, c.pubkey, c.nonce, c.hiveId,
                                           c.expiresAt, ToISOString(t - 1)), c.pubkey)],
           [honest EXCEPT !.signature = [honest.signature EXCEPT !.len = 63]],
           [honest EXCEPT !.signature = NoSignature],
           [honest EXCEPT !.nonce = "uuid-unknown"]}

\* The device fields the client script sends at time t: the four
\* OPENCLAW_DEVICE_* variables of its own environment, which hold a gateway's
\* proof or are not set (the script then sends "", which the handler reads
\* as it reads a missing field).
ClientDevices(t) == {NoDevice, DeviceProof(t)}

\* The device fields dev are what server d asks for: a gateway's proof, or
\* none where none is required.
DeviceSuits(d, dev, t) == dev = DeviceProof(t) \/ (~proofRequired[d] /\ dev = NoDevice)

JoinBodies(d) ==
  UNION {JoinBodiesFor(issued[k], now, dev) : k \in DOMAIN issued, dev \in ClientDevices(now)}

Bearer(token) == [scheme |-> "Bearer", token |-> token]
KnownTokens == UNION {DOMAIN sessions[n] : n \in DOMAIN sessions}
Headers ==
  {Bearer(tk) : tk \in KnownTokens}
  \cup {[scheme |-> Undef, token |-> <<"">>],
        [scheme |-> "Basic", token |-> <<"secret">>],
        Bearer(<<"">>),
        Bearer(<<"uuid-unknown">>),
        Bearer(<<"h2", "uuid-unknown">>)}

MessageBodies ==
  {[content |-> "hello", channel |-> "default"],
   [content |-> "hello", channel |-> Undef],
   [content |-> Undef, channel |-> "default"]}

\* Records a peer pushes: messages it holds as its own clients' posts.
Pushed(uid, hive, createdAtMs) ==
  [uid |-> uid, agentId |-> "agent-009", hiveId |-> hive, content |-> "relayed",
   createdAtMs |-> createdAtMs, ts |-> ToISOString(createdAtMs), channel |-> "general",
   source |-> "local"]

\* Batches a third server pushes: records for the default hive that are new,
\* older, of another hive, without content, without ts/createdAtMs/channel,
\* with an infinite createdAtMs, and without ts but with a createdAtMs that
\* no Date holds (beyond the range either way, or infinite).
PushBodies ==
  LET new == Pushed("x1", H1, now)
      old == Pushed("x2", H1, T0 - 5)
      other == Pushed("x2", H2, now)
      noContent == [new EXCEPT !.content = Undef]
      bare == [Pushed("x1", H1, NaN) EXCEPT !.ts = NoTime, !.channel = Undef]
      inf == [Pushed("x2", H1, T0 - 3) EXCEPT !.createdAtMs = Infinity]
      far == [Pushed("x2", H1, OutOfRange) EXCEPT !.ts = NoTime]
      early == [Pushed("x2", H1, BelowRange) EXCEPT !.ts = NoTime]
      endless == [Pushed("x2", H1, Infinity) EXCEPT !.ts = NoTime]
  IN {[hive_id |-> NoHive, messages |-> b] :
        b \in {<<>>, <<new>>, <<old>>, <<other>>, <<noContent>>, <<bare>>, <<inf>>,
               <<far>>, <<early>>, <<new, endless>>,
               <<new, noContent>>, <<new, new>>, <<new, old>>, <<other, bare>>}}
     \cup {[hive_id |-> H2, messages |-> b] : b \in {<<new>>, <<other>>}}

Deltas == {1, CHALLENGE_TTL_MS, CHALLENGE_TTL_MS + 1}

----------------------------------------------------------------------------
\* Specifications.

\* The stores of the nodes `nodes` when their processes start, but for the
\* sessions.
InitButSessions(nodes) ==
  /\ now = T0
  /\ ticks = 0
  /\ thisHiveId = [n \in nodes |-> HIVE_ID]
  /\ challenges = [n \in nodes |-> EmptyMap]
  /\ messages = [n \in nodes |-> <<>>]
  /\ messageIds = [n \in nodes |-> {}]
  /\ nextMessageId = [n \in nodes |-> 1]
  /\ peerCursors = [n \in nodes |-> EmptyMap]
  /\ alarm = [n \in nodes |-> NoAlarm]
  /\ flows = EmptyMap
  /\ issued = EmptyMap
  /\ consumed = {}
  /\ resp = [op |-> "none"]

\* The stores of the nodes `nodes` when their processes start.
InitStoresOf(nodes) ==
  /\ InitButSessions(nodes)
  /\ sessions = [n \in nodes |-> EmptyMap]
  /\ uuids = 0

InitStores == InitStoresOf(AllNodes)

\* The requests that wait for their body, and whether one more may arrive.
\* The step is poll cycle f taking in the batch its peer served.
Ingests(f) ==
  /\ flows[f].kind = "poll" /\ flows[f].pc = "served"
  /\ f \in DOMAIN flows' /\ flows'[f].pc = "next"

Waiting == {f \in DOMAIN flows : flows[f].pc = "body"}
MayArrive == Cardinality(Waiting) < MaxWaiting

\* The poll cycles of node n in progress.
Polling(n) == {f \in DOMAIN flows : flows[f].kind = "poll" /\ flows[f].at = n}

\* One more handler or poll cycle may start.
Room == Cardinality(DOMAIN flows) < MaxFlows

\* The uids stored anywhere.
Entered == UNION {messageIds[n] : n \in DOMAIN messageIds}

Issued == Cardinality(DOMAIN issued)

\* Spec: one deployment, A, without peers (the Bun server or the Worker), and
\* every request the join protocol distinguishes.
Init ==
  /\ InitStores
  /\ kind \in {[d \in Deployments |-> IF d = "A" THEN k ELSE "bun"] : k \in {"bun", "worker"}}
  /\ peers = [d \in Deployments |-> <<>>]
  /\ proofRequired \in {[d \in Deployments |-> d = "A" /\ b] : b \in BOOLEAN}
  /\ gossipToken = [d \in Deployments |-> ""]
  /\ envInterval = [d \in Deployments |-> Absent]

Next ==
  \/ /\ MayArrive
     /\ Issued + Cardinality(WaitingFor("challenge")) < MaxChallenges
     /\ \E body \in ChallengeBodies : ChallengeArrive("A", body)
  \/ /\ MayArrive
     /\ \E body \in ChallengeBodies : ChallengeStatus(body) # 200 /\ ChallengeArrive("A", body)
  \/ \E f \in DOMAIN flows : Challenge(f)
  \/ MayArrive /\ \E body \in JoinBodies("A") : JoinArrive("A", body)
  \/ \E f \in DOMAIN flows : Join(f)
  \/ /\ ticks < MaxTicks
     /\ \E delta \in Deltas : Tick(delta)

Spec == Init /\ [][Next]_vars

\* The joins of clients whose environment holds no device proof, for the
\* challenges issued.
HonestJoins ==
  {ClientJoin(issued[k], ToISOString(now), NoDevice) : k \in DOMAIN issued \ consumed}

SessionHeaders == {Bearer(tk) : tk \in KnownTokens}

\* What a client sends as Authorization: the token of its session, or a
\* token no session has.
ClientHeaders == SessionHeaders \cup {Bearer(<<"uuid-unknown">>)}

ClientMessage == [content |-> "hello", channel |-> "default"]

StoreSince == {Num(0), Num(1)}
StoreLimits == {Absent, NotANumber, Num(-1), Num(0), Num(1), Half(1)}

StoreNext ==
  \/ \E header \in Headers, body \in MessageBodies : MessageArrive("A", header, body)
  \/ \E header \in Headers, since \in StoreSince, limit \in StoreLimits :
       GetMessages("A", header, since, limit)
  \/ /\ MayArrive
     /\ \E body \in PushBodies :
          /\ Cardinality(Entered \cup {body.messages[i].uid : i \in DOMAIN body.messages})
               <= MaxStored
          /\ PushArrive("A", Undef, body)
  \/ \E f \in DOMAIN flows : GossipPush(f)

\* The server runs without OPENCLAW_DEVICE_PROOF_REQUIRED.
PlainInit == Init /\ proofRequired["A"] = FALSE

\* The session record /join's code makes at time t from the challenge of the
\* client of hive h (agent-002 with key K2 for h2, agent-001 with K1 else).
SessionAt(h, t) ==
  [agentId |-> IF h = H2 THEN "agent-002" ELSE "agent-001",
   pubkey |-> IF h = H2 THEN K2 ELSE K1,
   hiveId |-> h,
   expiresAt |-> t + SESSION_TTL_MS]

\* The session store of node n that holds, under the tokens /join's code
\* mints from UUID(i) on, the sessions made at T0 for the hives hs that A
\* serves at n.
RECURSIVE SessionsAt(_, _, _)
SessionsAt(n, hs, i) ==
  IF hs = <<>> THEN EmptyMap
  ELSE LET rest == SessionsAt(n, Tail(hs), i + 1) IN
       IF Node("A", Head(hs)) = n
       THEN MapPut(rest, MintToken(n, Head(hs), UUID(i)), SessionAt(Head(hs), T0))
       ELSE rest

\* The session store as input of the handlers that read it: the store of a
\* started server, empty, and the store with one session of each hive as
\* /join's code writes it at T0.  No run of Spec reaches the second, since no
\* /join passes verifyMessage; a property that every step from both keeps is
\* kept by every run of the program.
GivenSessions ==
  \E hs \in {<<>>, <<H1, H2>>} :
    /\ sessions = [n \in AllNodes |-> SessionsAt(n, hs, 1)]
    /\ uuids = Len(hs)

\* SessionSpec applies requireSession and the handlers behind it to the
\* session stores of GivenSessions.  One deployment, A, without peers (the
\* Bun server or the Worker).
SessionInit ==
  /\ kind \in {[d \in Deployments |-> IF d = "A" THEN k ELSE "bun"] : k \in {"bun", "worker"}}
  /\ peers = [d \in Deployments |-> <<>>]
  /\ proofRequired = [d \in Deployments |-> FALSE]
  /\ gossipToken = [d \in Deployments |-> ""]
  /\ envInterval = [d \in Deployments |-> Absent]
  /\ InitButSessions(AllNodes)
  /\ GivenSessions

\* StoreSpec: one deployment, A, without peers; a third server that pushes,
\* and clients that post and read with every kind of Authorization header.
StoreSpec == PlainInit /\ [][StoreNext]_vars

\* SessionSpec: one deployment, A, without peers; one client of each hive,
\* every kind of Authorization header, and a clock that reaches the end of
\* a session's life and the millisecond after it.
SessionDeltas == {SESSION_TTL_MS, SESSION_TTL_MS + 1}

SessionNext ==
  \/ /\ MayArrive
     /\ Cardinality(Entered) + Cardinality(WaitingFor("message")) < MaxPosts
     /\ \E header \in Headers : MessageArrive("A", header, ClientMessage)
  \/ \E f \in DOMAIN flows : PostMessage(f)
  \/ \E header \in Headers : GetMessages("A", header, Absent, Absent)
  \/ /\ ticks < MaxSessionTicks
     /\ \E delta \in SessionDeltas : Tick(delta)

SessionSpec == SessionInit /\ [][SessionNext]_vars

\* What the client script sends to /challenge.
ClientChallenge == [agent_id |-> "agent-001", pubkey |-> K1, hive_id |-> HIVE_ID]

\* GossipSpec: deployments A (the Bun server or the Worker) and B (a Bun
\* server), each the other's peer; a client that posts to A, a third server
\* that pushes, the poll timers and the clock.

\* Batches a third server pushes for the default hive: to A a record made
\* now, a record made earlier, both, a record twice, and a record with an
\* infinite createdAtMs; to B the record made now.
GossipBatches(d) ==
  LET new == Pushed("x1", H1, now)
      old == Pushed("x2", H1, T0 - 5)
      inf == [Pushed("x2", H1, T0 - 3) EXCEPT !.createdAtMs = Infinity]
  IN {[hive_id |-> NoHive, messages |-> b] :
        b \in IF d = "A" THEN {<<new>>, <<old>>, <<inf>>, <<new, old>>, <<new, new>>}
              ELSE {<<new>>}}

GossipDeltas == {Max(1000, GOSSIP_INTERVAL_MS)}

GossipInit ==
  /\ InitStores
  /\ kind \in {[d \in Deployments |-> IF d = "A" THEN k ELSE "bun"] : k \in {"bun", "worker"}}
  /\ peers = [d \in Deployments |-> IF d = "A" THEN <<"B">> ELSE <<"A">>]
  /\ proofRequired = [d \in Deployments |-> FALSE]
  /\ gossipToken = [d \in Deployments |-> ""]
  /\ envInterval = [d \in Deployments |-> Absent]

GossipNext ==
  \/ \E header \in ClientHeaders : MessageArrive("A", header, ClientMessage)
  \/ /\ MayArrive /\ Room
     /\ \E d \in Deployments : \E body \in GossipBatches(d) :
          /\ Cardinality(Entered \cup {e.uid : e \in Range(body.messages)}) <= MaxMessages
          /\ PushArrive(d, Undef, body)
  \/ \E f \in DOMAIN flows : GossipPush(f)
  \/ \E d \in Deployments : Room /\ TimerFires(d)
  \/ \E n \in AllNodes : AlarmFires(n)
  \/ \E f \in DOMAIN flows : PeerServes(f)
  \/ \E f \in DOMAIN flows : FetchFails(f)
  \/ \E f \in DOMAIN flows : PollIngest(f)
  \/ \E f \in DOMAIN flows : NextPeer(f)
  \/ /\ ticks < MaxGossipTicks
     /\ \E delta \in GossipDeltas : Tick(delta)

GossipSpec == GossipInit /\ [][GossipNext]_vars

\* SourceSpec: the deployments of GossipSpec on the session stores of
\* GivenSessions; clients that post to A with every kind of Authorization
\* header, a third server that pushes to B, the poll timers and the clock.
SourceInit ==
  /\ kind \in {[d \in Deployments |-> IF d = "A" THEN k ELSE "bun"] : k \in {"bun", "worker"}}
  /\ peers = [d \in Deployments |-> IF d = "A" THEN <<"B">> ELSE <<"A">>]
  /\ proofRequired = [d \in Deployments |-> FALSE]
  /\ gossipToken = [d \in Deployments |-> ""]
  /\ envInterval = [d \in Deployments |-> Absent]
  /\ InitButSessions(AllNodes)
  /\ GivenSessions

SourceNext ==
  \/ /\ MayArrive /\ Room
     /\ Cardinality(Entered) + Cardinality(WaitingFor("message")) < MaxMessages
     /\ \E header \in Headers : MessageArrive("A", header, ClientMessage)
  \/ \E f \in DOMAIN flows : PostMessage(f)
  \/ /\ MayArrive /\ Room
     /\ \E body \in GossipBatches("B") :
          /\ Cardinality(Entered \cup {e.uid : e \in Range(body.messages)}) <= MaxMessages
          /\ PushArrive("B", Undef, body)
  \/ \E f \in DOMAIN flows : GossipPush(f)
  \/ \E d \in Deployments : Room /\ TimerFires(d)
  \/ \E n \in AllNodes : AlarmFires(n)
  \/ \E f \in DOMAIN flows : PeerServes(f)
  \/ \E f \in DOMAIN flows : PollIngest(f)
  \/ \E f \in DOMAIN flows : NextPeer(f)
  \/ /\ ticks < MaxGossipTicks
     /\ \E delta \in GossipDeltas : Tick(delta)

SourceSpec == SourceInit /\ [][SourceNext]_vars

\* SecretSpec: deployments A (the Bun server or the Worker) and B (a Bun
\* server), each the other's peer, each with or without a gossip token of its
\* own; gossip requests with every kind of x-hivemind-gossip header, and the
\* poll timers.
GossipSecrets ==
  {[d \in Deployments |-> IF d = "A" THEN a ELSE b] :
     a \in {"", "s3cret"}, b \in {"", "s3cret", "other"}}

GossipHeaders == {Undef, "", "s3cret", "wrong"}

SecretBatches == {[hive_id |-> NoHive, messages |-> <<Pushed("x1", H1, now)>>]}

SecretInit ==
  /\ InitStores
  /\ kind \in {[d \in Deployments |-> IF d = "A" THEN k ELSE "bun"] : k \in {"bun", "worker"}}
  /\ peers = [d \in Deployments |-> IF d = "A" THEN <<"B">> ELSE <<"A">>]
  /\ proofRequired = [d \in Deployments |-> FALSE]
  /\ gossipToken \in GossipSecrets
  /\ envInterval = [d \in Deployments |-> Absent]

SecretNext ==
  \/ /\ MayArrive /\ Room
     /\ \E d \in Deployments, header \in GossipHeaders, body \in SecretBatches :
          PushArrive(d, header, body)
  \/ \E f \in DOMAIN flows : GossipPush(f)
  \/ \E d \in Deployments, header \in GossipHeaders, since \in {Num(0), Num(T0 + 1)} :
       GossipMessages(d, header, H1, since, Absent)
  \/ \E d \in Deployments : Room /\ TimerFires(d)
  \/ \E f \in DOMAIN flows : PeerServes(f)
  \/ \E f \in DOMAIN flows : PollIngest(f)
  \/ \E f \in DOMAIN flows : NextPeer(f)

SecretSpec == SecretInit /\ [][SecretNext]_vars

\* FeedSpec: one deployment, A, without peers; a third server that pushes, in
\* order and possibly again, FeedChunks batches of together more than
\* MAX_GOSSIP_BATCH records of the default hive, and a peer that pulls the
\* feed of either hive from several points in time.
FeedChunkSize == (MAX_GOSSIP_BATCH + FeedChunks) \div FeedChunks

FeedChunk(j) ==
  [i \in 1..FeedChunkSize |-> Pushed("u" \o ToString((j - 1) * FeedChunkSize + i), H1, now)]

FeedSince == {NotANumber, Num(0), Num(T0)}
FeedLimits == {Absent, NotANumber, Num(1)}

FeedNext ==
  \/ /\ MayArrive
     /\ \E j \in 1..FeedChunks :
          /\ Cardinality(Entered) >= (j - 1) * FeedChunkSize
          /\ PushArrive("A", Undef, [hive_id |-> NoHive, messages |-> FeedChunk(j)])
  \/ \E f \in DOMAIN flows : GossipPush(f)
  \/ \E hive_id \in {NoHive, H1, H2}, since \in FeedSince, limit \in FeedLimits :
       GossipMessages("A", Undef, hive_id, since, limit)

FeedSpec == PlainInit /\ [][FeedNext]_vars

----------------------------------------------------------------------------
\* Properties of the join protocol (Spec).

\* What /join answers to body now.
JoinNow(body) ==
  JoinOutcome(challenges[RouteByBody("A", body.hive_id)], proofRequired["A"], body, now)

RequiredFieldMissing(body) ==
  \/ Falsy(body.agent_id) \/ Falsy(body.pubkey) \/ Falsy(body.nonce)
  \/ body.signature = NoSignature \/ Falsy(body.timestamp.form)

\* The join preconditions of a request with all required fields, stated on
\* the request and the challenge store: which of them the request passes.
NonceKnown(body) == body.nonce \in DOMAIN challenges[RouteByBody("A", body.hive_id)]

StoredFor(body) == challenges[RouteByBody("A", body.hive_id)][body.nonce]

BindingMatches(body) ==
  LET c == StoredFor(body) IN
  /\ body.agent_id = c.agentId
  /\ body.pubkey = c.pubkey
  /\ body.hive_id \in {NoHive, c.hiveId}
  /\ body.expires_at \in {NoTime, c.expiresAt}

Unexpired(body) == DateParse(StoredFor(body).expiresAt) >= now

WithinSkew(t) ==
  {ToISOString(t), ToISOString(t - MAX_CLOCK_SKEW_MS), ToISOString(t + MAX_CLOCK_SKEW_MS)}

\* A join that consumes a nonce answers 200 and records one new session, for
\* the agent, key and hive of the challenge.
JoinCreatesSession ==
  \A k \in consumed' \ consumed :
    /\ resp'.op = "join" /\ resp'.status = 200 /\ resp'.nonce = k
    /\ consumed' = consumed \cup {k}
    /\ \A n \in AllNodes : k \notin DOMAIN challenges'[n]
    /\ \E n \in AllNodes :
         /\ resp'.session_token \notin DOMAIN sessions[n]
         /\ sessions' = [sessions EXCEPT ![n] =
                           MapPut(@, resp'.session_token,
                                  [agentId |-> issued[k].agentId,
                                   pubkey |-> issued[k].pubkey,
                                   hiveId |-> issued[k].hiveId,
                                   expiresAt |-> now + SESSION_TTL_MS])]

\* The /join answered in this step carried what the client of client.ts
\* sends for a stored challenge that the step finds unexpired, with a
\* timestamp within the skew of the time of the step.
ClientJoinAnswered ==
  /\ resp'.op = "join"
  /\ resp'.nonce \in DOMAIN challenges[resp'.at]
  /\ now <= DateParse(challenges[resp'.at][resp'.nonce].expiresAt)
  /\ \E f \in DOMAIN flows \ DOMAIN flows' :
       \E ts \in WithinSkew(now), dev \in ClientDevices(now) :
         /\ DeviceSuits("A", dev, now)
         /\ flows[f].body = ClientJoin(challenges[resp'.at][resp'.nonce], ts, dev)

\* C1: after /challenge issues a nonce, the first /join that carries it with
\* a correctly signed canonical message (before expiry, timestamp within
\* skew) succeeds and creates a session, and every later /join with the same
\* nonce is answered 401.
C1_JoinOnce ==
  /\ [][ClientJoinAnswered => resp'.status = 200 /\ resp'.nonce \in consumed']_vars
  /\ [][JoinCreatesSession]_vars
  /\ [][(resp'.op = "join" /\ resp'.nonce \in consumed) => resp'.status = 401]_vars

\* A join that the expiry test rejects leaves no challenge and no new session.
ExpiredJoinDeletes ==
  (resp'.op = "join" /\ resp'.error = "challenge expired") =>
     /\ resp'.status = 401
     /\ resp'.nonce \notin DOMAIN challenges'[resp'.at]
     /\ UNCHANGED <<sessions, consumed>>

\* No join consumes a nonce after the challenge's expiry, and a nonce enters
\* the store only when it is issued.
NoLateJoin ==
  /\ \A k \in consumed' \ consumed : now <= DateParse(issued[k].expiresAt)
  /\ \A n \in AllNodes : \A k \in DOMAIN challenges'[n] \ DOMAIN challenges[n] :
       k \notin DOMAIN issued /\ k \notin consumed

\* C2: a /join after the stored challenge's expiresAt is rejected without a
\* session although the record is still stored (the client's own request by
\* the expiry test); the expiry test's rejection deletes the record; a
\* consumed or expired nonce is never accepted again.
C2_ExpiredRejected ==
  /\ [](\A n \in AllNodes : \A k \in DOMAIN challenges[n] :
          DateParse(challenges[n][k].expiresAt) < now =>
            \A body \in JoinBodies("A") :
              (body.nonce = k /\ RouteByBody("A", body.hive_id) = n) =>
                 /\ JoinNow(body).status \in {400, 401}
                 /\ JoinNow(body).effect # "session"
                 /\ (JoinNow(body).error = "challenge expired"
                       => JoinNow(body).effect = "delete")
                 /\ (\E dev \in ClientDevices(now) :
                        body = ClientJoin(challenges[n][k], ToISOString(now), dev))
                       => JoinNow(body).error = "challenge expired")
  /\ [][ExpiredJoinDeletes /\ NoLateJoin]_vars

\* The expiry test rejected a join for a challenge that was still stored.
C2_Witness ==
  /\ resp.op = "join" /\ resp.error = "challenge expired"
  /\ resp.nonce \in DOMAIN issued
  /\ DateParse(issued[resp.nonce].expiresAt) < now
  /\ \A n \in AllNodes : resp.nonce \notin DOMAIN challenges[n]
  /\ resp.nonce \notin consumed

\* What the client's correctly signed /join for nonce k, with the device
\* fields dev, is answered after the step.
ClientJoinAfter(k, dev) ==
  LET body == ClientJoin(issued[k], ToISOString(now'), dev)
  IN JoinOutcome(challenges'[RouteByBody("A", body.hive_id)], proofRequired["A"], body, now')

\* A join is rejected by a test other than the expiry test.
RejectedNotExpired ==
  resp'.op = "join" /\ resp'.status # 200 /\ resp'.error # "challenge expired"

\* C11: a /join rejected for a reason other than the challenge's expiry leaves
\* the challenges, the sessions and the messages as they were, and the
\* client's correct /join for the same nonce, before the expiry, still succeeds.
C11_RejectedJoinKeeps ==
  [][RejectedNotExpired =>
       /\ UNCHANGED <<challenges, sessions, messages, messageIds, nextMessageId,
                      consumed, uuids>>
       /\ \A k \in DOMAIN issued \ consumed :
            (k = resp'.nonce /\ now < DateParse(issued[k].expiresAt)) =>
               \A dev \in ClientDevices(now) :
                 DeviceSuits("A", dev, now) => ClientJoinAfter(k, dev).status = 200]_vars

\* The timestamp parses and is within MAX_CLOCK_SKEW_MS of t, either way.
InSkewWindow(timestamp, t) ==
  /\ timestamp.form \in {"iso", "alt"}
  /\ timestamp.ms - t <= MAX_CLOCK_SKEW_MS
  /\ t - timestamp.ms <= MAX_CLOCK_SKEW_MS

\* A join the skew test rejects changes neither the challenges nor the sessions.
SkewRejectKeeps ==
  (resp'.op = "join" /\ resp'.error = "timestamp outside allowed clock skew") =>
     /\ resp'.status = 401
     /\ UNCHANGED <<challenges, sessions, consumed>>

\* C14: a /join succeeds only with a timestamp that parses and lies within
\* MAX_CLOCK_SKEW_MS of the time of verification, in the past or in the
\* future; a request outside the window gets no session (one that names an
\* unexpired challenge with its bindings is rejected by the skew test), and
\* the challenge it names stays stored unless it has already expired.
C14_SkewWindow ==
  /\ [](/\ (resp.op = "join" /\ resp.status = 200) => InSkewWindow(resp.body.timestamp, now)
        /\ \A body \in JoinBodies("A") :
             ~InSkewWindow(body.timestamp, now) =>
                /\ JoinNow(body).status \in {400, 401}
                /\ JoinNow(body).effect # "session"
                /\ (JoinNow(body).effect = "delete" =>
                      /\ body.nonce \in DOMAIN issued
                      /\ DateParse(issued[body.nonce].expiresAt) < now)
                /\ ((/\ ~RequiredFieldMissing(body) /\ NonceKnown(body)
                      /\ BindingMatches(body) /\ Unexpired(body)
                      /\ DateParse(body.timestamp) # NaN)
                       => JoinNow(body).error = "timestamp outside allowed clock skew"))
  /\ [][SkewRejectKeeps]_vars

\* The skew test rejected a join whose challenge is stored and not expired.
C14_Witness ==
  /\ resp.op = "join" /\ resp.error = "timestamp outside allowed clock skew"
  /\ resp.nonce \in DOMAIN challenges[resp.at]
  /\ now <= DateParse(challenges[resp.at][resp.nonce].expiresAt)

\* A device-proof field is present when it is a non-empty string.
DeviceFieldsPresent(dev) ==
  {f \in {"publicKey", "nonce"} : ~Falsy(dev[f])}
  \cup (IF dev.signature # NoSignature THEN {"signature"} ELSE {})
  \cup (IF ~Falsy(dev.signedAt.form) THEN {"signedAt"} ELSE {})

\* The device-proof step applies to the request.
DeviceStepApplies(dev) == proofRequired["A"] \/ DeviceFieldsPresent(dev) # {}

\* All four fields, the device key's signature over the device nonce, and a
\* signed-at time within the freshness window of t.
DeviceProofGood(dev, t) ==
  /\ DeviceFieldsPresent(dev) = {"publicKey", "signature", "nonce", "signedAt"}
  /\ Base64Len(dev.publicKey) = PublicKeyLength
  /\ dev.signature = signMessage(dev.nonce, dev.publicKey)
  /\ dev.signedAt.form \in {"iso", "alt"}
  /\ dev.signedAt.ms - t <= OPENCLAW_DEVICE_PROOF_TTL_MS
  /\ t - dev.signedAt.ms <= OPENCLAW_DEVICE_PROOF_TTL_MS

\* The answers of the device-proof step.
DeviceErrors == {"missing OpenClaw device proof fields", "invalid OpenClaw device proof"}

\* The request passes every test that comes before the device-proof step.
ReachesDeviceStep(body) ==
  /\ ~RequiredFieldMissing(body) /\ NonceKnown(body) /\ BindingMatches(body)
  /\ Unexpired(body) /\ InSkewWindow(body.timestamp, now)

\* C15: when the device proof is mandatory or the request carries one of the
\* four device-proof fields, a session is recorded only if all four are
\* present, the device signature verifies over the device nonce and the
\* signed-at time is within the freshness window of now: a request without
\* such a proof is rejected, by the device-proof step if it comes that far;
\* when the proof is not mandatory and no field is present the step is skipped.
C15_DeviceProof ==
  /\ (resp.op = "join" /\ resp.status = 200 /\ DeviceStepApplies(resp.body.device))
        => DeviceProofGood(resp.body.device, now)
  /\ \A body \in JoinBodies("A") :
       /\ (DeviceStepApplies(body.device) /\ ~DeviceProofGood(body.device, now))
             => /\ JoinNow(body).status # 200 /\ JoinNow(body).effect # "session"
                /\ ReachesDeviceStep(body) => JoinNow(body).error \in DeviceErrors
       /\ ~DeviceStepApplies(body.device) => JoinNow(body).error \notin DeviceErrors

\* The device-proof step rejected a join that carried three of the four
\* fields to a server that does not require the proof.
C15_Witness ==
  /\ ~proofRequired["A"]
  /\ resp.op = "join" /\ resp.status = 401
  /\ resp.error = "missing OpenClaw device proof fields"
  /\ resp.nonce \in DOMAIN challenges[resp.at]

\* The status the preconditions give a request that is rejected.
StatusByPreconditions(body) ==
  IF RequiredFieldMissing(body) THEN 400
  ELSE IF ~NonceKnown(body) THEN 401
  ELSE IF ~BindingMatches(body) \/ ~Unexpired(body) THEN 401
  ELSE IF DateParse(body.timestamp) = NaN THEN 400
  ELSE 401

\* C16, as stated: every /join that is rejected is answered 401, except that a
\* request with a missing required field is answered 400.
C16_AsStated ==
  \A body \in JoinBodies("A") :
    JoinNow(body).status # 200 =>
      JoinNow(body).status = IF RequiredFieldMissing(body) THEN 400 ELSE 401

\* C16, amended: a /join that fails on an unknown nonce, a binding mismatch, an
\* expired challenge, a timestamp outside the skew window, a missing or
\* invalid device proof or an invalid signature is answered 401; a request
\* with a missing required field, or with a timestamp that does not parse
\* once its nonce, binding and expiry have passed, is answered 400.
C16_RejectionStatus ==
  /\ \A body \in JoinBodies("A") :
       JoinNow(body).status # 200 => JoinNow(body).status = StatusByPreconditions(body)
  /\ resp.op = "join" =>
       /\ resp.status \in {200, 400, 401}
       /\ resp.status = 400 <=>
            resp.error \in {"agent_id, pubkey, nonce, signature, timestamp are required",
                            "timestamp must be an ISO string"}

\* A join with an unparseable timestamp was answered 400 for a stored,
\* unexpired challenge.
C16_Witness ==
  /\ resp.op = "join" /\ resp.status = 400
  /\ resp.error = "timestamp must be an ISO string"
  /\ resp.nonce \in DOMAIN challenges[resp.at]

\* The string decodes (bs58) to a key of the right length.
WellFormedKey(pubkey) == ~Bs58Decode(pubkey).throws /\ Bs58Decode(pubkey).len = PublicKeyLength

\* A rejected /challenge is answered 400 and adds, evicts and consumes nothing.
RejectedChallengeKeeps ==
  (resp'.op = "challenge" /\ resp'.status # 200) =>
     /\ resp'.status = 400
     /\ UNCHANGED <<challenges, issued, uuids, sessions, consumed>>

\* C17: POST /challenge without agent_id or pubkey, or with a pubkey that is
\* not a well-formed public key, is answered 400 and leaves the challenge
\* store as it was: no challenge is added and none is evicted.
C17_BadChallenge ==
  /\ [](\A body \in ChallengeBodies :
          (Falsy(body.agent_id) \/ Falsy(body.pubkey) \/ ~WellFormedKey(body.pubkey))
             <=> ChallengeStatus(body) = 400)
  /\ [][RejectedChallengeKeeps]_vars

\* A /challenge was answered 400 while a challenge past its expiry is stored.
C17_Witness ==
  /\ resp.op = "challenge" /\ resp.status = 400
  /\ \E n \in AllNodes : \E k \in DOMAIN challenges[n] :
       DateParse(challenges[n][k].expiresAt) <= now

----------------------------------------------------------------------------
\* Properties of the session store (SessionSpec).

\* requireSession on every header, at every store: a session past expiresAt
\* gives what an unknown token gives and is gone afterwards; any other
\* session is returned and the store is left as it was.
ValidateAll ==
  \A n \in AllNodes : \A header \in Headers :
    LET tk == parseAuthToken(header)
        ss == sessions[n]
    IN IF tk = NoToken \/ tk \notin DOMAIN ss
       THEN requireSession(ss, header, now) = NoToken /\ evictSession(ss, header, now) = ss
       ELSE IF ss[tk].expiresAt < now
       THEN /\ requireSession(ss, header, now)
                 = requireSession(ss, Bearer(<<"uuid-unknown">>), now)
            /\ evictSession(ss, header, now) = MapDelete(ss, {tk})
            /\ tk \notin DOMAIN evictSession(ss, header, now)
       ELSE /\ requireSession(ss, header, now) = tk
            /\ evictSession(ss, header, now) = ss

\* The /message requests received in this step whose token named a session:
\* they go on to wait for their body.
Admitted ==
  {f \in DOMAIN flows' \ DOMAIN flows : flows'[f].kind = "message"}

\* The requests that validate a token (requireSession runs when the request
\* is received): an expired session is answered 401 and removed by that
\* request, a live one is not answered 401 and stays.
ValidateStep ==
  /\ (resp'.op \in {"message", "messages"} /\ resp'.status = 401 /\ resp'.token # NoToken
         /\ resp'.token \in DOMAIN sessions[resp'.at]) =>
       /\ sessions[resp'.at][resp'.token].expiresAt < now
       /\ sessions' = [sessions EXCEPT ![resp'.at] = MapDelete(@, {resp'.token})]
  /\ (resp'.op = "messages" /\ resp'.status # 401) =>
       /\ resp'.token \in DOMAIN sessions[resp'.at]
       /\ sessions[resp'.at][resp'.token].expiresAt >= now
       /\ sessions' = sessions
  /\ \A f \in Admitted :
       LET n == flows'[f].at  tk == flows'[f].token IN
       /\ tk \in DOMAIN sessions[n]
       /\ sessions[n][tk].expiresAt >= now
       /\ flows'[f].session = sessions[n][tk]
       /\ sessions' = sessions

\* C8: requireSession on a token whose session is past expiresAt answers as
\* for an unknown token and removes the session on that access; a session not
\* past expiresAt is returned and stays in the store.
C8_SessionExpiry == []ValidateAll /\ [][ValidateStep]_vars

\* A request with the token of a stored session was answered 401 after the
\* session's life, and the session is gone.
C8_Witness ==
  /\ resp.op \in {"message", "messages"} /\ resp.status = 401
  /\ now > T0 + SESSION_TTL_MS
  /\ \E k \in 1..uuids : resp.token \in {<<UUID(k)>>} \cup {h \o <<UUID(k)>> : h \in Hives}
  /\ resp.token \notin DOMAIN sessions[resp.at]
  /\ \E n \in AllNodes : sessions[n] # EmptyMap

----------------------------------------------------------------------------
\* Properties of the message store (GossipSpec, StoreSpec).

\* Records handed to storeMessage: a local post and relayed records, with
\* uids the store may or may not hold.
AppendInputs ==
  {[uid |-> u, ts |-> ToISOString(now), createdAtMs |-> now, agentId |-> "agent-001",
    hiveId |-> H1, content |-> "hello", channel |-> "default", source |-> src] :
     u \in Entered \cup {"x1", "x2", UUID(uuids + 1)}, src \in {"local", "gossip"}}

\* storeMessage twice with the same uid, at the store of every node.
AppendTwice ==
  \A n \in AllNodes : \A input \in AppendInputs :
    LET s0 == StoreOf(n)
        first == storeMessage(s0, input)
        second == storeMessage(first.store, input)
    IN /\ ~second.stored
       /\ second.store = first.store
       /\ IF input.uid \in s0.messageIds
          THEN ~first.stored /\ first.store = s0
          ELSE /\ first.stored
               /\ first.message = input @@ [id |-> s0.nextMessageId]
               /\ first.store.messages = Append(s0.messages, first.message)
               /\ first.store.nextMessageId = s0.nextMessageId + 1

\* Each uid is stored once at a node, and the index holds the stored uids.
UidsOnce ==
  \A n \in AllNodes :
    /\ messageIds[n] = {messages[n][i].uid : i \in DOMAIN messages[n]}
    /\ \A i, j \in DOMAIN messages[n] : messages[n][i].uid = messages[n][j].uid => i = j

\* A post, a push or a poll cycle only appends records with uids the node did
\* not hold, and consumes one id for each.
AppendOnly ==
  \A n \in AllNodes :
    /\ Len(messages'[n]) >= Len(messages[n])
    /\ SubSeq(messages'[n], 1, Len(messages[n])) = messages[n]
    /\ nextMessageId'[n] = nextMessageId[n] + (Len(messages'[n]) - Len(messages[n]))
    /\ \A i \in (Len(messages[n]) + 1)..Len(messages'[n]) :
         messages'[n][i].uid \notin messageIds[n]

\* C3: storeMessage twice with one uid on one hive, from a post, a push or a
\* poll: a message the first time, null the second; the store grows by one
\* record and the second call changes nothing.
C3_AppendIdempotent == [](AppendTwice /\ UidsOnce) /\ [][AppendOnly]_vars

\* A poll cycle ended having stored nothing, at a node holding a record that
\* its peer holds too and serves in its feed.
C3_Witness ==
  /\ resp.op = "poll" /\ resp.stored = 0
  /\ \E i \in DOMAIN messages[resp.at] : \E n \in AllNodes : \E k \in DOMAIN messages[n] :
       /\ n[1] # resp.at[1]
       /\ n[1] \in Range(peers[resp.at[1]])
       /\ messages[n][k].uid = messages[resp.at][i].uid
       /\ AtOrAfter(messages[n][k], Num(0))

\* The records of hive h at node n, in insertion order.
OfHive(n, h) == SelectSeq(messages[n], LAMBDA m : m.hiveId = h)

\* C4: the ids of the messages stored for a hive are 1..n in insertion order,
\* also at a server that holds the messages of several hives.
C4_PerHiveIds ==
  \A n \in AllNodes : \A h \in Hives :
    \A i \in DOMAIN OfHive(n, h) : OfHive(n, h)[i].id = i

\* The entries of a batch that /gossip/push does not store: malformed or of
\* another hive, held by the store, or a repetition of an earlier entry.
SkippedEntries(batch, ids, hive) ==
  {i \in DOMAIN batch :
     \/ PushSkips(batch[i], hive)
     \/ batch[i].uid \in ids
     \/ \E j \in 1..(i - 1) : ~PushSkips(batch[j], hive) /\ batch[j].uid = batch[i].uid}

\* /gossip/push on every batch, at every store.
PushCounts ==
  \A body \in PushBodies :
    LET n == RouteByBody("A", body.hive_id)
        hive == SetHive(n)[n]
        r == PushLoop(body.messages, StoreOf(n), hive, now, 0, 0)
    IN /\ r.accepted + r.skipped = Len(body.messages)
       /\ r.accepted = Len(r.store.messages) - Len(messages[n])
       /\ r.skipped = Cardinality(SkippedEntries(body.messages, messageIds[n], hive))

\* A new well-formed record followed by one without content: {1, 1}.
PushExample ==
  LET n == RouteByBody("A", NoHive)
      new == Pushed("x1", H1, now)
      r == PushLoop(<<new, [new EXCEPT !.uid = "x2", !.content = Undef]>>,
                    StoreOf(n), SetHive(n)[n], now, 0, 0)
  IN "x1" \notin messageIds[n] => r.accepted = 1 /\ r.skipped = 1

\* What a push step reports against what it stored.
PushStep ==
  resp'.op = "push" =>
     /\ resp'.accepted + resp'.skipped = resp'.size
     /\ resp'.accepted = Len(messages'[resp'.at]) - Len(messages[resp'.at])

\* C10: /gossip/push reports accepted + skipped = size of the batch, accepted
\* the number of records the request stored and skipped the malformed,
\* wrong-hive and already-present entries; a new well-formed record and an
\* entry without a required field give {accepted: 1, skipped: 1}.
C10_PushCounts == [](PushCounts /\ PushExample) /\ [][PushStep]_vars

----------------------------------------------------------------------------
\* Properties of gossip (GossipSpec).

\* Where deployment d keeps the shared hive.
ServerNode(d) == Node(d, HIVE_ID)

UidsOf(d) == {OfHive(ServerNode(d), HIVE_ID)[i].uid : i \in DOMAIN OfHive(ServerNode(d), HIVE_ID)}

\* A poll cycle of d whose fetches all succeed would store nothing and move
\* no cursor: with no new message entering, every later cycle is the same.
PollQuiet(d) ==
  LET n == ServerNode(d)
      r == pollPeers(kind[d], peers[d], Answering(d, Deployments), StoreOf(n), peerCursors[n],
                     thisHiveId[n], now)
  IN r.store = StoreOf(n) /\ r.cursors = peerCursors[n]

\* C7: two servers that are each other's peer for a hive hold the same uids
\* once no message enters and poll cycles with successful fetches have
\* nothing left to do, whatever posts, pushes and polls came before.
C7_Converges ==
  (flows = EmptyMap /\ PollQuiet("A") /\ PollQuiet("B")) => UidsOf("A") = UidsOf("B")

----------------------------------------------------------------------------
\* Properties of the gossip guard (SecretSpec).

\* Deployment d has a gossip token and the header is not that token.
WrongSecret(d, header) == ~Falsy(gossipToken[d]) /\ header # gossipToken[d]

\* A gossip request is answered 401, with no messages and no change of any
\* store, exactly when the server has a token and the header is not it.
GuardedRequest ==
  resp'.op \in {"push", "feed"} =>
     IF WrongSecret(resp'.at[1], resp'.header)
     THEN /\ resp'.status = 401
          /\ resp'.op = "feed" => resp'.messages = <<>>
          /\ resp'.op = "push" => resp'.accepted = 0
          /\ UNCHANGED <<messages, messageIds, nextMessageId, peerCursors>>
     ELSE resp'.status = 200

\* A poll cycle stores records of a peer only if the peer's guard passes the
\* poller's own token.
GuardedPoll ==
  \A f \in DOMAIN flows :
    Ingests(f) =>
      LET n == flows[f].at
          p == flows[f].peer
      IN \A i \in DOMAIN messages'[n] \ DOMAIN messages[n] :
           /\ ~WrongSecret(p, PollHeader(n[1]))
           /\ messages'[n][i].uid \in messageIds[Node(p, HIVE_ID)]

\* C18: with a gossip secret configured, a request to /gossip/messages or
\* /gossip/push whose x-hivemind-gossip header is not the secret is answered
\* 401, returns no messages and stores nothing; without a secret every gossip
\* request is authorized.
C18_GossipSecret ==
  [][GuardedRequest /\ GuardedPoll]_vars

\* A push with a wrong header was answered 401 by a server that holds a
\* message an authorized push stored.
C18_Witness ==
  /\ resp.op = "push" /\ resp.status = 401
  /\ resp.header = "wrong"
  /\ messages[resp.at] # <<>>

----------------------------------------------------------------------------
\* Properties of the message source (SourceSpec).

\* The nodes that hold uid as a local message.
LocalHolders(uid) ==
  {n \in AllNodes : \E i \in DOMAIN messages[n] :
     messages[n][i].uid = uid /\ messages[n][i].source = "local"}

\* A step keeps the source of every stored record; the records it adds are
\* local when it is a /message post and gossip when it is a push or a poll.
SourceStep ==
  \A n \in AllNodes :
    /\ \A i \in DOMAIN messages[n] :
         i \in DOMAIN messages'[n] /\ messages'[n][i].source = messages[n][i].source
    /\ \A i \in DOMAIN messages'[n] \ DOMAIN messages[n] :
         \/ /\ resp'.op \in {"message", "push"}
            /\ resp'.at = n
            /\ messages'[n][i].source = IF resp'.op = "message" THEN "local" ELSE "gossip"
         \/ /\ \E f \in DOMAIN flows : Ingests(f) /\ flows[f].at = n
            /\ messages'[n][i].source = "gossip"

\* C19: only the server that accepted a message through /message stores it as
\* local; every copy stored by a poll or a push is stored as gossip, so at
\* most one server holds a uid as local, and a stored message's source never
\* changes.
C19_LocalAtOrigin ==
  /\ [](\A uid \in Entered : Cardinality(LocalHolders(uid)) <= 1)
  /\ [][SourceStep]_vars

\* A poll has stored as gossip the record that its peer took from a client
\* through /message and holds as local, and the poller holds as gossip a
\* record that a third server pushed as its own.
C19_Witness ==
  /\ resp.op = "poll" /\ resp.stored >= 1
  /\ \E n \in AllNodes : \E i \in DOMAIN messages[resp.at], j \in DOMAIN messages[n] :
       /\ n[1] # resp.at[1]
       /\ messages[n][j].uid = messages[resp.at][i].uid
       /\ messages[n][j].source = "local"
       /\ messages[resp.at][i].source = "gossip"
       /\ LocalHolders(messages[n][j].uid) = {n}
  /\ \E i \in DOMAIN messages[resp.at] :
       /\ messages[resp.at][i].uid = "x1"
       /\ messages[resp.at][i].source = "gossip"

----------------------------------------------------------------------------
\* Properties of the gossip feed (FeedSpec).

\* The stored messages of hive h at the node that answered.
HeldOf(n, h) == SelectSeq(messages[n], LAMBDA m : m.hiveId = h)

\* C20: GET /gossip/messages?hive_id=H&since_ms=T returns every stored message
\* of hive H made after T, however many the server holds, no message of
\* another hive, and the messages oldest first.
C20_FeedComplete ==
  (resp.op = "feed" /\ resp.status = 200 /\ resp.limit = Absent /\ ~resp.since_ms.nan) =>
     LET held == HeldOf(resp.at, resp.asked)
         got == resp.messages
     IN /\ \A i \in DOMAIN held :
             (held[i].createdAtMs # NaN /\ 2 * held[i].createdAtMs > resp.since_ms.twice)
                => \E j \in DOMAIN got : got[j].uid = held[i].uid
        /\ \A j \in DOMAIN got : got[j].hiveId = resp.asked
        /\ \A j \in DOMAIN got : \A k \in DOMAIN got : j < k => got[j].id < got[k].id

----------------------------------------------------------------------------
\* Properties of the session lifetime (SessionSpec).

\* A step leaves every session it keeps as it was, removes only sessions past
\* their expiresAt, and adds a session only by a /join answered 200, under a
\* token drawn for it, with expiresAt = now + SESSION_TTL_MS.
SessionFixed ==
  \A n \in AllNodes :
    /\ \A tk \in DOMAIN sessions[n] :
         IF tk \in DOMAIN sessions'[n]
         THEN sessions'[n][tk] = sessions[n][tk]
         ELSE sessions[n][tk].expiresAt < now
    /\ \A tk \in DOMAIN sessions'[n] \ DOMAIN sessions[n] :
         /\ resp'.op = "join" /\ resp'.status = 200 /\ resp'.session_token = tk
         /\ uuids' = uuids + 1 /\ tk[Len(tk)] = UUID(uuids')
         /\ sessions'[n][tk].expiresAt = now + SESSION_TTL_MS
         /\ resp'.expires_at = ToISOString(now + SESSION_TTL_MS)

\* A request that is not rejected when its token is validated bore the token
\* of a stored session that was not past its expiresAt.
LiveOnly ==
  /\ (resp'.op = "messages" /\ resp'.status # 401) =>
       /\ resp'.token \in DOMAIN sessions[resp'.at]
       /\ sessions[resp'.at][resp'.token].expiresAt >= now
  /\ \A f \in Admitted :
       /\ flows'[f].token \in DOMAIN sessions[flows'[f].at]
       /\ sessions[flows'[f].at][flows'[f].token].expiresAt >= now
  /\ (resp'.op = "message" /\ resp'.status # 401) =>
       \E f \in DOMAIN flows \ DOMAIN flows' : flows[f].kind = "message"

\* C22: a session's expiresAt is the time of its join + SESSION_TTL_MS and no
\* request, also no successful authenticated one, changes it; after that
\* instant every request with the token is rejected, and a token becomes
\* usable only by a new join.
C22_NoRenewal ==
  /\ [](\A n \in AllNodes : \A tk \in DOMAIN sessions[n] :
          /\ sessions[n][tk].expiresAt <= now + SESSION_TTL_MS
          /\ sessions[n][tk].expiresAt < now =>
               requireSession(sessions[n], Bearer(tk), now) = NoToken)
  /\ [][SessionFixed /\ LiveOnly]_vars

\* A request with the token of a session that had stored a message was
\* rejected after the session's life, and the session is gone.
C22_Witness ==
  /\ resp.op \in {"message", "messages"} /\ resp.status = 401
  /\ now > T0 + SESSION_TTL_MS
  /\ resp.token # NoToken
  /\ resp.token \notin DOMAIN sessions[resp.at]
  /\ \E i \in DOMAIN messages[resp.at] :
       /\ messages[resp.at][i].source = "local"
       /\ messages[resp.at][i].createdAtMs = T0
       /\ resp.token \in {<<UUID(k)>> : k \in 1..2} \cup {messages[resp.at][i].hiveId \o <<UUID(k)>> : k \in 1..2}

----------------------------------------------------------------------------
\* Properties of stored messages (GossipSpec).

\* Every stored record is still stored after the step, under the same id and
\* with the same fields.
RecordsKept ==
  \A n \in AllNodes : \A i \in DOMAIN messages[n] :
    /\ i \in DOMAIN messages'[n]
    /\ messages'[n][i] = messages[n][i]
    /\ messages[n][i].uid \in messageIds'[n]

\* C23: a stored message is never changed and never deleted: after every
\* post, push and poll cycle, in any order, each record is stored under the
\* id it was given, with the fields it was stored with.
C23_Immutable == [][RecordsKept]_vars

\* A poll cycle stored a record at a node that held a pushed record, which is
\* still the first record.
C23_Witness ==
  /\ resp.op = "poll" /\ resp.stored = 1
  /\ Len(messages[resp.at]) = 2
  /\ messages[resp.at][1].uid # messages[resp.at][2].uid
  /\ messages[resp.at][1].id = 1

----------------------------------------------------------------------------
\* Properties of the two implementations (StoreSpec).

\* The Durable Object of hive h has received the requests addressed to h, and
\* a Bun server that received the same requests holds the same store.  On
\* that store, the answer of the Bun handler to a /gossip/push addressed to h
\* is the answer of the Worker handler, and so is the store afterwards.
SamePush ==
  \A body \in PushBodies :
    LET n == RouteByBody("A", body.hive_id)
        worker == PushLoop(body.messages, StoreOf(n), SetHive(n)[n], now, 0, 0)
        bun == PushLoop(body.messages, StoreOf(n), HIVE_ID, now, 0, 0)
    IN /\ worker.accepted = bun.accepted
       /\ worker.skipped = bun.skipped
       /\ worker.store = bun.store

\* The same for GET /messages with a session of h and a whole-number limit.
SameRead ==
  \A h \in Hives : \A since \in StoreSince : \A limit \in {Absent, Num(-1), Num(0), Num(1)} :
    LET msgs == messages[<<"A", h>>] IN
    WorkerReadSince(msgs, SinceOf(since), ToInteger(MessagesLimit(limit)))
      = BunReadSince(msgs, h, SinceOf(since), MessagesLimit(limit))

\* C24: the Worker answers every sequence of requests addressed to one hive as
\* the Bun server does, with the same status and the same contents up to the
\* nonce, token and uid values; stated here for /gossip/push and /messages.
C24_SameProtocol ==
  kind["A"] = "worker" => SamePush /\ SameRead

----------------------------------------------------------------------------
\* RaceSpec: deployment A (the Bun server or the Worker) with the peer B (a
\* Bun server); a third server pushes to both, A's handlers and poll cycles
\* run step by step, at most MaxFlows of them at a time.
\* The third server pushes to B a record and then an earlier one, and to A the
\* first of them.
RaceBatches(d) ==
  {[hive_id |-> NoHive, messages |-> <<Pushed("x1", H1, T0)>>]} \cup
  IF d = "B" /\ "x1" \in Entered
  THEN {[hive_id |-> NoHive, messages |-> <<Pushed("x2", H1, T0 - 5)>>]} ELSE {}

RaceInit ==
  /\ InitStores
  /\ kind \in {[d \in Deployments |-> IF d = "A" THEN k ELSE "bun"] : k \in {"bun", "worker"}}
  /\ peers = [d \in Deployments |-> IF d = "A" THEN <<"B">> ELSE <<>>]
  /\ proofRequired = [d \in Deployments |-> FALSE]
  /\ gossipToken = [d \in Deployments |-> ""]
  /\ envInterval = [d \in Deployments |-> Absent]

RaceNext ==
  \/ Room /\ \E d \in Deployments : \E body \in RaceBatches(d) : PushArrive(d, Undef, body)
  \/ Room /\ TimerFires("A")
  \/ Room /\ \E n \in AllNodes : AlarmFires(n)
  \/ \E f \in DOMAIN flows : PeerServes(f)
  \/ \E f \in DOMAIN flows : FetchFails(f)
  \/ \E f \in DOMAIN flows : BodyArrives(f)
  \/ \E f \in DOMAIN flows : StoreGetUid(f)
  \/ \E f \in DOMAIN flows : StoreGetNext(f)
  \/ \E f \in DOMAIN flows : StorePutNext(f)
  \/ \E f \in DOMAIN flows : StorePutMsg(f)
  \/ \E f \in DOMAIN flows : PushFinish(f)
  \/ \E f \in DOMAIN flows : CursorPut(f)
  \/ \E f \in DOMAIN flows : NextPeer(f)
  \/ /\ ticks < MaxRaceTicks
     /\ \E delta \in GossipDeltas : Tick(delta)

RaceSpec == RaceInit /\ [][RaceNext]_vars

\* Flows of node n that have taken an id and not yet written its record.
Writing(n) == {f \in DOMAIN flows : flows[f].at = n /\ flows[f].pc = "put-msg"}

\* C25: when two appends carrying the same uid run concurrently on one hive
\* (a poll cycle ingesting a batch while a /gossip/push delivers the same
\* uid), at most one of them stores a record and at most one id is consumed,
\* at every interleaving of their storage reads and writes: no uid is stored
\* twice, and the ids handed out are those of the records stored and of the
\* one being written.
C25_OneAppend ==
  \A n \in AllNodes :
    /\ \A i, j \in DOMAIN messages[n] : messages[n][i].uid = messages[n][j].uid => i = j
    /\ messageIds[n] = {messages[n][i].uid : i \in DOMAIN messages[n]}
    /\ nextMessageId[n] = 1 + Len(messages[n]) + Cardinality(Writing(n))

\* A poll cycle holds a batch with a uid that a push, in progress at the
\* same time and not yet answered, has stored: one record, one id, and the
\* cycle's storeMessage for that uid is still to come.
C25_Witness ==
  \E f, g \in DOMAIN flows :
    /\ flows[f].kind = "poll" /\ flows[f].pc = "served"
    /\ \E i \in DOMAIN flows[f].todo : flows[f].todo[i].uid = "x1"
    /\ flows[g].kind = "push" /\ flows[g].pc = "finish"
    /\ flows[g].at = flows[f].at /\ flows[g].accepted = 1
    /\ Len(messages[flows[f].at]) = 1
    /\ messages[flows[f].at][1].uid = "x1"
    /\ nextMessageId[flows[f].at] = 2

----------------------------------------------------------------------------
\* Properties of the cursor (GossipSpec: each deployment has one peer).

\* The largest of a non-empty set of numbers.
Largest(S) == CHOOSE x \in S : \A y \in S : y <= x

\* createdAtMs of the records node n stores in this step.
NewlyCreated(n) ==
  {messages'[n][i].createdAtMs : i \in (DOMAIN messages'[n]) \ (DOMAIN messages[n])} \ {NaN}

\* The step takes in the batch of the one peer polled.
CursorAfterPoll ==
  \A f \in DOMAIN flows :
    Ingests(f) =>
      LET n == flows[f].at
          p == flows[f].peer
          previous == CursorOf(peerCursors[n], p)
      IN /\ CursorOf(peerCursors'[n], p) = Largest(NewlyCreated(n) \cup {previous})
         /\ NewlyCreated(n) = {} => peerCursors'[n] = peerCursors[n]

\* C27: at the end of polling one peer, that peer's cursor equals
\* max(previous cursor, maximum createdAtMs among the messages of the batch
\* that were newly accepted); a batch in which every record is a duplicate or
\* is rejected leaves the cursor unchanged, and records merely received but
\* not accepted never raise it.
C27_CursorRule == [][CursorAfterPoll]_vars

----------------------------------------------------------------------------
\* Properties of overlapping poll cycles (RaceSpec).

CursorsGrow ==
  \A n \in AllNodes : \A p \in DOMAIN peerCursors[n] :
    /\ p \in DOMAIN peerCursors'[n]
    /\ peerCursors'[n][p] >= peerCursors[n][p]

\* C28: each per-(peer, hive) cursor is monotonically non-decreasing over
\* every execution, including when poll cycles overlap (a new timer-driven
\* cycle starts while an earlier cycle's fetch is still in flight, so both
\* read the same cursor value) and when a peer serves records out of
\* createdAtMs order.
C28_CursorMonotonic == [][CursorsGrow]_vars

----------------------------------------------------------------------------
\* FailSpec: deployment A (the Bun server or the Worker) with two peers: an
\* address that never answers, and B (a Bun server), which is up or down at
\* each cycle and, when it has a gossip token, answers A's requests 401.
\* Clients that ask A for a challenge, join and read, a third server that
\* pushes to B, the poll timers and the clock.

DeadPeer == "C"

FailInit ==
  /\ InitStores
  /\ kind \in {[d \in Deployments |-> IF d = "A" THEN k ELSE "bun"] : k \in {"bun", "worker"}}
  /\ peers = [d \in Deployments |-> IF d = "A" THEN <<DeadPeer, "B">> ELSE <<>>]
  /\ proofRequired = [d \in Deployments |-> FALSE]
  /\ gossipToken \in {[d \in Deployments |-> IF d = "A" THEN "" ELSE b] : b \in {"", "s3cret"}}
  /\ envInterval = [d \in Deployments |-> Absent]

FailNext ==
  \/ /\ MayArrive
     /\ Issued + Cardinality(WaitingFor("challenge")) < MaxChallenges
     /\ ChallengeArrive("A", ClientChallenge)
  \/ \E f \in DOMAIN flows : Challenge(f)
  \/ MayArrive /\ \E body \in HonestJoins : JoinArrive("A", body)
  \/ \E f \in DOMAIN flows : Join(f)
  \/ \E header \in ClientHeaders : GetMessages("A", header, Num(0), Absent)
  \/ MayArrive /\ \E body \in SecretBatches : PushArrive("B", PollHeader("B"), body)
  \/ \E f \in DOMAIN flows : GossipPush(f)
  \/ Room /\ TimerFires("A")
  \/ \E n \in AllNodes : AlarmFires(n)
  \/ \E f \in DOMAIN flows : PeerServes(f)
  \/ \E f \in DOMAIN flows : FetchFails(f)
  \/ \E f \in DOMAIN flows : PollIngest(f)
  \/ \E f \in DOMAIN flows : NextPeer(f)
  \/ /\ ticks < MaxGossipTicks
     /\ \E delta \in GossipDeltas : Tick(delta)

FailSpec == FailInit /\ [][FailNext]_vars

\* The step is the failure of poll cycle f at its peer: the fetch threw or
\* was answered with a non-success status, or the payload was malformed.
FetchFailed(f) ==
  /\ flows[f].kind = "poll" /\ flows[f].pc \in {"sent", "served"}
  /\ f \in DOMAIN flows' /\ flows'[f].pc = "next"
  /\ flows'[f].stored = flows[f].stored /\ flows'[f].maxSeen = flows[f].sinceMs

\* The step is poll cycle f resuming from a fetch whose answer was not ok.
FetchRefused(f) ==
  /\ flows[f].kind = "poll" /\ flows[f].pc = "refused"
  /\ f \in DOMAIN flows' => flows'[f] # flows[f]

\* A failure leaves the cursors, the stores, the challenges and the sessions
\* as they were, answers no client, and leaves the remaining peers to be
\* polled; a cycle goes on with the next configured peer and ends only when
\* none remains.
FailuresSwallowed ==
  \A f \in DOMAIN flows :
    /\ FetchFailed(f) =>
         /\ UNCHANGED <<peerCursors, messages, messageIds, nextMessageId, challenges, sessions>>
         /\ flows'[f].rest = flows[f].rest
         /\ resp'.op = "none"
    /\ FetchRefused(f) =>
         UNCHANGED <<peerCursors, messages, messageIds, nextMessageId, challenges, sessions>>
    /\ (flows[f].kind = "poll" /\ flows[f].pc \in {"next", "refused"}) =>
         IF flows[f].rest # <<>>
         THEN f \in DOMAIN flows' /\
              (flows'[f] # flows[f] =>
                 /\ flows'[f].pc = "sent"
                 /\ flows'[f].peer = Head(flows[f].rest)
                 /\ flows'[f].rest = Tail(flows[f].rest))
         ELSE f \in DOMAIN flows' => flows'[f] = flows[f]

\* C29: if a peer's fetch throws, returns a non-success status or returns a
\* malformed payload, the poll cycle leaves that peer's cursor unchanged,
\* still polls every remaining configured peer in the same cycle, and the
\* failure is never surfaced to a client: no /challenge, /join, /message or
\* /messages request returns a different result because of it.
C29_FailureSwallowed == [][FailuresSwallowed]_vars

\* The first peer's fetch failed and the cycle stored the second peer's
\* record, moving only the second peer's cursor.
C29_Witness ==
  /\ resp.op = "poll" /\ resp.stored = 1
  /\ peers[resp.at[1]] = <<DeadPeer, "B">>
  /\ CursorOf(peerCursors[resp.at], DeadPeer) = 0
  /\ CursorOf(peerCursors[resp.at], "B") > 0

----------------------------------------------------------------------------
\* LiveSpec: deployment A (the Bun server or the Worker) with the peer B (a
\* Bun server), and a third server that pushes to both, to A again and again.
\* Time goes on without end.  Every record pushed here carries its ts and
\* createdAtMs, and there are no challenges and no sessions, so the only
\* values these handlers take from Date.now() are alarm times, and the only
\* use of an alarm time is its comparison with Date.now(): two states that
\* differ by a shift of the clock and of the alarms behave alike.  LiveSpec
\* and HangSpec keep, of each such class of states, the one whose clock
\* reads T0: `now` and `alarm` are the program's Date.now() and alarm time
\* less the time passed since the start.  The Bun timer fires, and the runtime
\* calls alarm() once the alarm time is reached and stays reached.

LiveDelta == 1000

LiveBatches(d) ==
  {[hive_id |-> NoHive, messages |-> <<Pushed(uid, H1, T0)>>] :
     uid \in IF d = "A" THEN {"x1", "x2"} ELSE {"x1"}}

LiveInit ==
  /\ InitStores
  /\ kind \in {[d \in Deployments |-> IF d = "A" THEN k ELSE "bun"] : k \in {"bun", "worker"}}
  /\ peers = [d \in Deployments |-> IF d = "A" THEN <<"B">> ELSE <<>>]
  /\ proofRequired = [d \in Deployments |-> FALSE]
  /\ gossipToken = [d \in Deployments |-> ""]
  /\ envInterval = [d \in Deployments |-> Absent]

\* LiveDelta passes: in the state kept, every alarm is LiveDelta nearer to
\* the clock, and an alarm that is due stays due.
Elapse ==
  /\ alarm' = [n \in DOMAIN alarm |->
                IF alarm[n] = NoAlarm THEN NoAlarm ELSE Max(alarm[n] - LiveDelta, now)]
  /\ resp' = [op |-> "none"]
  /\ UNCHANGED <<now, ticks, kind, peers, proofRequired, gossipToken, envInterval, flows, thisHiveId,
                 challenges, sessions, messages, messageIds, nextMessageId, peerCursors,
                 uuids, issued, consumed>>

LiveTimer == Room /\ TimerFires("A")

LiveAlarm == \E n \in AllNodes : AlarmFires(n)

\* B answers the fetch, and the cycle goes on.
LiveServes == \E f \in DOMAIN flows : PeerServes(f)
LiveIngest == \E f \in DOMAIN flows : PollIngest(f)
LiveNextPeer == \E f \in DOMAIN flows : NextPeer(f)

\* The body of a waiting request arrives.
LiveBody == \E f \in DOMAIN flows : GossipPush(f)

LiveNext ==
  \/ /\ MayArrive
     /\ \E d \in Deployments : \E body \in LiveBatches(d) : PushArrive(d, Undef, body)
  \/ LiveBody
  \/ LiveTimer
  \/ LiveAlarm
  \/ LiveServes
  \/ LiveIngest
  \/ LiveNextPeer
  \/ Elapse

LiveSpec ==
  /\ LiveInit
  /\ [][LiveNext]_vars
  /\ WF_vars(Elapse)
  /\ WF_vars(LiveBody)
  /\ WF_vars(LiveTimer)
  /\ WF_vars(LiveAlarm)
  /\ WF_vars(LiveServes)
  /\ WF_vars(LiveIngest)
  /\ WF_vars(LiveNextPeer)

\* The node of A that serves the default hive.
LiveNode == Node("A", HIVE_ID)

\* A poll cycle of the node is due: the Bun timer runs from the start of the
\* process; the Durable Object has an alarm set.
Scheduled == kind["A"] = "bun" \/ alarm[LiveNode] # NoAlarm

Polled == resp.op = "poll" /\ resp.at = LiveNode

\* C30: with at least one peer configured, gossip polling is independent of
\* inbound request handling: from any state another poll cycle eventually
\* runs, no matter how frequently client or peer requests (/challenge,
\* /join, /message, /gossip/push) arrive in between; request traffic can
\* neither postpone indefinitely nor suppress the next cycle, and after every
\* cycle a next one is scheduled.
C30_PollingGoesOn ==
  /\ Scheduled ~> Polled
  /\ [](Polled => alarm[LiveNode] # NoAlarm \/ kind["A"] = "bun")

----------------------------------------------------------------------------
\* HangSpec: deployment A (the Bun server or the Worker) with two peers, in
\* either order: an address whose fetch never returns, and B (a Bun server),
\* which answers.  A third server pushes a record to B, again and again, and
\* once another to A.
\* The poll cycles run step by step, at most MaxFlows of them at a time;
\* time goes on as in LiveSpec; the timer and a due alarm fire, B answers,
\* and a handler that can go on does.

HangInit ==
  /\ InitStores
  /\ kind \in {[d \in Deployments |-> IF d = "A" THEN k ELSE "bun"] : k \in {"bun", "worker"}}
  /\ peers \in {[d \in Deployments |-> IF d = "A" THEN ps ELSE <<>>] :
                  ps \in {<<DeadPeer, "B">>, <<"B", DeadPeer>>}}
  /\ proofRequired = [d \in Deployments |-> FALSE]
  /\ gossipToken = [d \in Deployments |-> ""]
  /\ envInterval = [d \in Deployments |-> Absent]

HangTimer == Room /\ TimerFires("A")

HangAlarm == Room /\ \E n \in AllNodes : AlarmFires(n)

\* The fetch of a peer that answers returns.
HangServes == \E f \in DOMAIN flows : flows[f].peer \in Deployments /\ PeerServes(f)

\* The handlers and poll cycles of node n go on, step by step.
StepsAt(n) ==
  \E f \in DOMAIN flows :
    /\ flows[f].at = n
    /\ \/ BodyArrives(f)
       \/ StoreGetUid(f)
       \/ StoreGetNext(f)
       \/ StorePutNext(f)
       \/ StorePutMsg(f)
       \/ PushFinish(f)
       \/ CursorPut(f)
       \/ NextPeer(f)

\* The third server pushes its record to B, whenever no request is waiting.
HangPush ==
  /\ MayArrive
  /\ PushArrive("B", Undef, [hive_id |-> NoHive, messages |-> <<Pushed("x1", H1, T0)>>])

HangNext ==
  \/ HangPush
  \/ /\ MayArrive
     /\ "x2" \notin Entered
     /\ PushArrive("A", Undef, [hive_id |-> NoHive, messages |-> <<Pushed("x2", H1, T0)>>])
  \/ HangTimer
  \/ HangAlarm
  \/ HangServes
  \/ StepsAt(LiveNode)
  \/ StepsAt(<<"B", ProcName>>)
  \/ Elapse

HangSpec ==
  /\ HangInit
  /\ [][HangNext]_vars
  /\ WF_vars(Elapse)
  /\ WF_vars(HangTimer)
  /\ WF_vars(HangAlarm)
  /\ WF_vars(HangServes)
  /\ WF_vars(HangPush)
  /\ WF_vars(StepsAt(LiveNode))
  /\ WF_vars(StepsAt(<<"B", ProcName>>))

\* B holds a record of the hive, and a poll cycle of A is due.
Offered == "x1" \in messageIds[<<"B", ProcName>>] /\ Scheduled

Taken == "x1" \in messageIds[LiveNode]

\* C31: a peer fetch that never returns does not prevent later poll cycles
\* from being scheduled, and does not block the polling of the other
\* configured peers or the next scheduled cycle indefinitely: a record held
\* by the peer that answers is eventually stored.
C31_StuckFetch == Offered ~> Taken

----------------------------------------------------------------------------
\* HiveSpec: one deployment, A, without peers (the Bun server or the Worker);
\* a client of hive h1 and one of hive h2 that ask for challenges and join,
\* a third server that pushes records of either hive, and a clock that
\* passes a challenge's expiry.

HiveChallenges ==
  {[agent_id |-> "agent-001", pubkey |-> K1, hive_id |-> H1],
   [agent_id |-> "agent-002", pubkey |-> K2, hive_id |-> H2]}

\* The record a third server pushes for hive h.
HiveEntry(h) == Pushed(IF h = H1 THEN "x1" ELSE "x2", h, T0)

HivePushes == {[hive_id |-> h, messages |-> <<HiveEntry(h)>>] : h \in Hives}

HiveNext ==
  \/ /\ MayArrive
     /\ Issued + Cardinality(WaitingFor("challenge")) < MaxHiveChallenges
     /\ \E body \in HiveChallenges : ChallengeArrive("A", body)
  \/ \E f \in DOMAIN flows : Challenge(f)
  \/ MayArrive /\ \E body \in HonestJoins : JoinArrive("A", body)
  \/ \E f \in DOMAIN flows : Join(f)
  \/ MayArrive /\ \E body \in HivePushes : PushArrive("A", Undef, body)
  \/ \E f \in DOMAIN flows : GossipPush(f)
  \/ /\ ticks < MaxTicks
     /\ Tick(CHALLENGE_TTL_MS + 1)

HiveSpec == PlainInit /\ [][HiveNext]_vars

\* The hive the request of flow fl was sent for.
RequestHive(fl) == IF fl.kind = "push" THEN fl.todo[1].hiveId ELSE fl.body.hive_id

\* The answers deployment A gives at this moment to the requests for hive h:
\* the status and error of the /join of every challenge issued for h, the
\* feed of h, and the counts of a push of h's record.
HiveAnswers(h) ==
  LET n == RouteByBody("A", h) IN
  [join |-> [k \in {j \in DOMAIN issued : issued[j].hiveId = h} |->
               LET o == JoinOutcome(challenges[n], proofRequired["A"],
                                    ClientJoin(issued[k], ToISOString(now), NoDevice), now)
               IN <<o.status, o.error>>],
   feed |-> GossipFeed("A", h, Num(0), MAX_GOSSIP_BATCH),
   push |-> LET r == PushLoop(<<HiveEntry(h)>>, StoreOf(n), SetHive(n)[n], now, 0, 0)
            IN <<r.accepted, r.skipped>>]

\* A step that answers a request for one hive leaves the answers to the
\* requests for every other hive as they were.
HivesApart ==
  \A f \in DOMAIN flows \ DOMAIN flows' :
    \A h \in Hives \ {RequestHive(flows[f])} : HiveAnswers(h)' = HiveAnswers(h)

\* C32: different hives do not interfere: for any two runs that differ only
\* in the requests sent for hive B (challenges, joins, pushed uids), every
\* response for hive A is identical in both runs: answering a request for
\* hive B changes no answer that a request for hive A gets, be it a /join, a
\* read of the feed or the accept/duplicate outcome of an append.
C32_HivesApart == [][HivesApart]_vars

----------------------------------------------------------------------------
\* IntervalSpec: deployment A (the Bun server or the Worker) with the peer B
\* and with HIVEMIND_GOSSIP_INTERVAL_MS unset or set to a text that reads as
\* a number (negative, zero, below and above 1000) or as none; a third server
\* that pushes to A, the poll timers and the clock.

IntervalEnvs == {Absent, NotANumber, Num(-5), Num(0), Num(999), Num(1000), Num(60000)}

IntervalInit ==
  /\ InitStores
  /\ kind \in {[d \in Deployments |-> IF d = "A" THEN k ELSE "bun"] : k \in {"bun", "worker"}}
  /\ peers = [d \in Deployments |-> IF d = "A" THEN <<"B">> ELSE <<>>]
  /\ proofRequired = [d \in Deployments |-> FALSE]
  /\ gossipToken = [d \in Deployments |-> ""]
  /\ envInterval \in {[d \in Deployments |-> IF d = "A" THEN e ELSE Absent] : e \in IntervalEnvs}

IntervalNext ==
  \/ /\ MayArrive
     /\ \E uid \in {"x1", "x2"} :
          PushArrive("A", Undef, [hive_id |-> NoHive, messages |-> <<Pushed(uid, H1, T0)>>])
  \/ \E f \in DOMAIN flows : GossipPush(f)
  \/ Room /\ TimerFires("A")
  \/ \E n \in AllNodes : AlarmFires(n)
  \/ \E f \in DOMAIN flows : PeerServes(f)
  \/ \E f \in DOMAIN flows : FetchFails(f)
  \/ \E f \in DOMAIN flows : PollIngest(f)
  \/ \E f \in DOMAIN flows : NextPeer(f)
  \/ /\ ticks < MaxIntervalTicks
     /\ Tick(1000)

IntervalSpec == IntervalInit /\ [][IntervalNext]_vars

\* The delay between the poll cycles of a Bun server.
TimerDelay(d) == setIntervalDelay(PollInterval(d))

\* An alarm set in this step is set to at least a second from now, and to
\* five seconds from now when no interval is configured.
AlarmDelay ==
  \A n \in AllNodes :
    alarm'[n] # alarm[n] /\ alarm'[n] # NoAlarm =>
      /\ alarm'[n] >= now + 1000
      /\ envInterval[n[1]] = Absent => alarm'[n] = now + 5000

\* C33: for every configured value of the gossip poll interval (below
\* 1000 ms, zero, negative or non-numeric included), the delay between
\* scheduled poll cycles is at least 1000 ms; when no value is configured it
\* is 5000 ms.
C33_IntervalFloor ==
  /\ [](\A d \in Deployments :
          kind[d] = "bun" /\ peers[d] # <<>> =>
            /\ TimerDelay(d) >= 1000
            /\ envInterval[d] = Absent => TimerDelay(d) = 5000)
  /\ [][AlarmDelay]_vars

----------------------------------------------------------------------------
\* PushSpec: deployment A (either server, with or without a gossip token)
\* receives POST /gossip/push requests whose body is no JSON, JSON without a
\* messages array, or a batch of entries with fields missing, of another
\* hive, with no ts, and with a createdAtMs that is missing, zero or outside
\* the range of Date.

\* incoming = Array.isArray(body?.messages) ? body?.messages : []
Incoming(b) == IF b.raw = "batch" THEN b.messages ELSE <<>>

PushRequest(d, header, b) ==
  PushArrive(d, header, [hive_id |-> b.hive_id, messages |-> Incoming(b)])

PushEntries ==
  LET good == Pushed("x1", H1, T0)
      next == Pushed("x2", H1, T0 + 1)
  IN {good, next,
      [next EXCEPT !.content = Undef],
      [next EXCEPT !.hiveId = H2],
      [next EXCEPT !.ts = NoTime],
      [next EXCEPT !.ts = NoTime, !.createdAtMs = NaN],
      [next EXCEPT !.ts = NoTime, !.createdAtMs = 0],
      [next EXCEPT !.createdAtMs = OutOfRange],
      [next EXCEPT !.createdAtMs = BelowRange],
      [next EXCEPT !.createdAtMs = Infinity],
      [next EXCEPT !.ts = NoTime, !.createdAtMs = OutOfRange],
      [next EXCEPT !.ts = NoTime, !.createdAtMs = BelowRange],
      [next EXCEPT !.ts = NoTime, !.createdAtMs = Infinity],
      [next EXCEPT !.uid = Undef, !.ts = NoTime, !.createdAtMs = OutOfRange]}

PushRequests ==
  {[raw |-> r, hive_id |-> NoHive, messages |-> <<>>] :
     r \in {"not-json", "no-messages", "messages-no-array"}}
  \cup {[raw |-> "batch", hive_id |-> NoHive, messages |-> <<e, Pushed("x3", H1, T0 + 2)>>] :
          e \in PushEntries}
  \cup {[raw |-> "batch", hive_id |-> NoHive, messages |-> <<>>]}

PushInit ==
  /\ InitStores
  /\ kind \in {[d \in Deployments |-> IF d = "A" THEN k ELSE "bun"] : k \in {"bun", "worker"}}
  /\ peers = [d \in Deployments |-> <<>>]
  /\ proofRequired = [d \in Deployments |-> FALSE]
  /\ gossipToken \in {[d \in Deployments |-> IF d = "A" THEN g ELSE ""] : g \in {"", "secret"}}
  /\ envInterval = [d \in Deployments |-> Absent]

PushNext ==
  \/ /\ MayArrive
     /\ \E header \in {Undef, "secret"}, b \in PushRequests : PushRequest("A", header, b)
  \/ \E f \in DOMAIN flows : GossipPush(f)
  \/ /\ ticks < MaxPushTicks
     /\ Tick(1)

PushSpec == PushInit /\ [][PushNext]_vars

\* C34: an authorized POST /gossip/push always answers with {accepted,
\* skipped} and never fails as a whole: a body that is no JSON or has no
\* messages array yields {accepted:0, skipped:0}, and no entry, whatever its
\* field values, aborts the request or keeps the later entries of the batch
\* from being processed (every entry is counted as accepted or skipped).
C34_PushNeverFails ==
  resp.op = "push" /\ authorizeGossip(resp.at[1], resp.header) =>
    /\ resp.status = 200
    /\ resp.accepted + resp.skipped = resp.size

----------------------------------------------------------------------------
\* RelaySpec: a chain of three Bun servers.  A polls B; B polls the origin C,
\* a server outside Deployments that accepted one message, five milliseconds
\* before the start; another server pushes its own new records to B.  The
\* poll timers of A and of B run again and again; the cycle of A is taken
\* step by step.

Origin == "C"
OriginUid == "c1"

\* The record C stores and serves.
OriginStore ==
  <<[id |-> 1, uid |-> OriginUid, ts |-> ToISOString(T0 - 5), createdAtMs |-> T0 - 5,
     agentId |-> "agent-003", hiveId |-> H1, content |-> "hello",
     channel |-> "default", source |-> "local"]>>

\* GET C/gossip/messages?since_ms= : C runs the same handler over its store.
OriginFeed(sinceMs) ==
  SelectSeq(OriginStore, LAMBDA m : m.createdAtMs # NaN /\ m.createdAtMs >= sinceMs)

PollerNode == <<"A", ProcName>>
RelayNode == <<"B", ProcName>>

RelayInit ==
  /\ InitStores
  /\ kind = [d \in Deployments |-> "bun"]
  /\ peers = [d \in Deployments |-> IF d = "A" THEN <<"B">> ELSE <<Origin>>]
  /\ proofRequired = [d \in Deployments |-> FALSE]
  /\ gossipToken = [d \in Deployments |-> ""]
  /\ envInterval = [d \in Deployments |-> Absent]

\* The timer of A, once the cycle before it has ended: a poll cycle over its
\* peer B starts.
PollerTimer == Room /\ TimerFires("A")

\* B answers the fetch and the cycle of A goes on.
PollerStep ==
  \/ \E f \in Polling(PollerNode) : PeerServes(f)
  \/ StepsAt(PollerNode)

\* The timer of B, once the cycle before it has ended: a poll cycle over its
\* peer C starts.
RelayTimer == Room /\ TimerFires("B")

\* C answers the fetch of B with its feed.
OriginServes ==
  \E f \in DOMAIN flows : OutsideServes(f, MapSeq(FromJson, OriginFeed(flows[f].sinceMs)))

\* The cycle of B takes in the batch and ends, and the pushes B received are
\* handled.
RelayStep == StepsAt(RelayNode)

RelayNext ==
  \/ /\ MayArrive
     /\ \E uid \in {"x1", "x2"} \ Entered :
          PushArrive("B", Undef, [hive_id |-> NoHive, messages |-> <<Pushed(uid, H1, now)>>])
  \/ PollerTimer
  \/ PollerStep
  \/ RelayTimer
  \/ OriginServes
  \/ RelayStep

RelaySpec ==
  /\ RelayInit
  /\ [][RelayNext]_vars
  /\ WF_vars(PollerTimer)
  /\ WF_vars(PollerStep)
  /\ WF_vars(RelayTimer)
  /\ WF_vars(OriginServes)
  /\ WF_vars(RelayStep)

\* C35: with servers connected by peer links in a chain (A polls B, B polls
\* C), a message accepted at any server is eventually stored at every server
\* that reaches it through the links: the message of C reaches B, and every
\* message B stores, relayed ones included, reaches A, whatever its
\* createdAtMs is relative to A's cursor for B.
C35_Converges ==
  /\ <>(OriginUid \in messageIds[RelayNode])
  /\ \A uid \in {OriginUid, "x1", "x2"} :
       (uid \in messageIds[RelayNode]) ~> (uid \in messageIds[PollerNode])

----------------------------------------------------------------------------
\* AcceptSpec: deployment A (either server) with one peer, C, a server
\* outside Deployments that answers a poll with any one entry; the same
\* entries are pushed to A.  The clock advances, so that the Worker's alarm
\* comes due.

BadTime == [ms |-> NaN, form |-> "bad"]

AcceptEntries ==
  LET good == Pushed("x1", H1, T0)
      next == Pushed("x2", H1, T0 + 1)
  IN {good, next,
      [next EXCEPT !.uid = Undef],
      [next EXCEPT !.agentId = Undef],
      [next EXCEPT !.content = Undef],
      [next EXCEPT !.content = ""],
      [next EXCEPT !.hiveId = H2],
      [next EXCEPT !.ts = NoTime, !.createdAtMs = NaN],
      [next EXCEPT !.ts = BadTime, !.createdAtMs = NaN],
      [next EXCEPT !.ts = BadTime, !.createdAtMs = Infinity],
      [next EXCEPT !.createdAtMs = Infinity],
      [next EXCEPT !.createdAtMs = BelowRange],
      [next EXCEPT !.ts = NoTime, !.createdAtMs = OutOfRange],
      [next EXCEPT !.ts = NoTime, !.createdAtMs = Infinity]}

AcceptInit ==
  /\ InitStores
  /\ kind \in {[d \in Deployments |-> IF d = "A" THEN k ELSE "bun"] : k \in {"bun", "worker"}}
  /\ peers = [d \in Deployments |-> IF d = "A" THEN <<Origin>> ELSE <<>>]
  /\ proofRequired = [d \in Deployments |-> FALSE]
  /\ gossipToken = [d \in Deployments |-> ""]
  /\ envInterval = [d \in Deployments |-> Absent]

\* The node of A that serves the default hive.
AcceptNode == Node("A", HIVE_ID)

AcceptNext ==
  \/ /\ MayArrive /\ Room
     /\ \E e \in AcceptEntries :
          PushRequest("A", Undef, [raw |-> "batch", hive_id |-> NoHive, messages |-> <<e>>])
  \/ \E f \in DOMAIN flows : GossipPush(f)
  \/ Room /\ TimerFires("A")
  \/ \E n \in AllNodes : AlarmFires(n)
  \/ \E f \in DOMAIN flows, e \in AcceptEntries : OutsideServes(f, <<e>>)
  \/ \E f \in DOMAIN flows : PollIngest(f)
  \/ \E f \in DOMAIN flows : NextPeer(f)
  \/ /\ ticks < MaxGossipTicks
     /\ \E delta \in GossipDeltas : Tick(delta)

AcceptSpec == AcceptInit /\ [][AcceptNext]_vars

\* Every stored message has a non-empty uid, agentId, hiveId and content and
\* a createdAtMs that is a number.
WellFormed(m) ==
  /\ ~Falsy(m.uid) /\ ~Falsy(m.agentId) /\ m.hiveId # NoHive /\ ~Falsy(m.content)
  /\ NumberIsFinite(m.createdAtMs)

\* Entry e, pushed to node n in this state, is stored.
PushAccepts(n, e) ==
  Len(PushLoop(<<e>>, StoreOf(n), thisHiveId[n], now, 0, 0).store.messages) > Len(messages[n])

\* Entry e, answered to a poll of node n in this state, is stored.
PollAccepts(n, e) ==
  Len(PollLoop(kind[n[1]], <<e>>, StoreOf(n), thisHiveId[n], now, 0).store.messages) > Len(messages[n])

\* C37: every message in a store, whichever path accepted it (/message,
\* /gossip/push or a gossip poll), has a non-empty uid, agentId, hiveId and
\* content and a finite createdAtMs; the poll path and the push path accept
\* exactly the same records.
C37_SameValidation ==
  /\ \A n \in AllNodes : \A i \in DOMAIN messages[n] : WellFormed(messages[n][i])
  /\ \A e \in AcceptEntries : PushAccepts(AcceptNode, e) <=> PollAccepts(AcceptNode, e)

----------------------------------------------------------------------------
\* ActorSpec: the Worker deployment A with the peer B, a Bun server of the
\* default hive.  Records of hives h1 and h2 are pushed to A (which sets the
\* alarm of the hive's Durable Object), a record of h1 is pushed to B, the
\* clock advances, alarms fire, and the runtime drops an idle Durable Object from
\* memory and constructs it again.

ActorInit ==
  /\ InitStores
  /\ kind = [d \in Deployments |-> IF d = "A" THEN "worker" ELSE "bun"]
  /\ peers = [d \in Deployments |-> IF d = "A" THEN <<"B">> ELSE <<>>]
  /\ proofRequired = [d \in Deployments |-> FALSE]
  /\ gossipToken = [d \in Deployments |-> ""]
  /\ envInterval = [d \in Deployments |-> Absent]

ActorBatches ==
  {[hive_id |-> NoHive, messages |-> <<Pushed("x1", H1, T0)>>],
   [hive_id |-> H2, messages |-> <<Pushed("x2", H2, T0)>>]}

ActorNext ==
  \/ MayArrive /\ \E body \in ActorBatches : PushArrive("A", Undef, body)
  \/ /\ MayArrive
     /\ PushArrive("B", Undef, [hive_id |-> NoHive, messages |-> <<Pushed("x3", H1, T0)>>])
  \/ \E f \in DOMAIN flows : GossipPush(f)
  \/ \E n \in AllNodes : AlarmFires(n)
  \/ \E f \in DOMAIN flows : PeerServes(f)
  \/ \E f \in DOMAIN flows : PollIngest(f)
  \/ \E f \in DOMAIN flows : NextPeer(f)
  \/ \E n \in AllNodes : Reconstruct(n)
  \/ /\ ticks < MaxGossipTicks
     /\ \E delta \in GossipDeltas : Tick(delta)

ActorSpec == ActorInit /\ [][ActorNext]_vars

\* The Durable Objects of the Worker deployment: node <<d, H>> hosts hive H.
Actors == {n \in AllNodes : kind[n[1]] = "worker" /\ n[2] # ProcName}

\* C38: in the Worker deployment the actor that hosts hive H only ever
\* requests hive_id=H from its peers and only stores messages whose hiveId
\* is H, in every poll cycle, those started by an alarm on a newly
\* constructed instance included.
C38_OwnHiveOnly ==
  /\ \A n \in Actors : \A i \in DOMAIN messages[n] : messages[n][i].hiveId = n[2]
  /\ resp.op = "poll" /\ resp.at \in Actors => thisHiveId[resp.at] = resp.at[2]

----------------------------------------------------------------------------
\* The client script, end to end (Spec).

\* What the script reads from /messages?since=0 at node n once /challenge
\* has answered with challenge c: it joins with the fields of c signed by its
\* key and the device fields dev, posts {content: "hello", channel: "default"} with the session, and
\* reads.  The script stops at the first answer that is not 200.
ScriptReads(n, c, dev) ==
  LET join == JoinOutcome(challenges[n], proofRequired[n[1]],
                          ClientJoin(c, ToISOString(now), dev), now)
      posted == storeMessage(StoreOf(n),
                  [uid |-> UUID(uuids + 2), ts |-> ToISOString(now), createdAtMs |-> now,
                   agentId |-> c.agentId, hiveId |-> c.hiveId, content |-> "hello",
                   channel |-> "default", source |-> "local"])
      ms == posted.store.messages
  IN IF join.status # 200 THEN <<>>
     ELSE IF kind[n[1]] = "bun"
     THEN BunReadSince(ms, c.hiveId, Num(0), MessagesLimit(Absent))
     ELSE WorkerReadSince(ms, Num(0), 50)

\* C9: at a server that holds no message of hive h1, an agent that was
\* issued a challenge for h1, joins with a correctly signed message, posts
\* {content: "hello", channel: "default"} and reads /messages?since=0
\* receives exactly one message, with content "hello", source "local",
\* hiveId h1 and id 1.
C9_EndToEnd ==
  \A n \in AllNodes : \A k \in DOMAIN challenges[n] : \A dev \in ClientDevices(now) :
    LET c == challenges[n][k]
        ms == ScriptReads(n, c, dev)
    IN (/\ c.hiveId = H1 /\ OfHive(n, H1) = <<>>
        /\ ~challengeExpired(DateParse(c.expiresAt), now)
        /\ DeviceSuits(n[1], dev, now)) =>
         /\ Len(ms) = 1
         /\ ms[1].content = "hello"
         /\ ms[1].source = "local"
         /\ ms[1].hiveId = H1
         /\ ms[1].id = 1

----------------------------------------------------------------------------
\* Expiry of challenges (Spec).

\* The cleanup run by /challenge at this instant would remove challenge k of
\* node n.
Evicted(n, k) == k \notin DOMAIN cleanupChallenges(challenges[n], now)

\* A /join for challenge k of node n at this instant would be rejected as
\* expired.
JoinExpired(n, k) == challengeExpired(DateParse(challenges[n][k].expiresAt), now)

\* C39: opportunistic eviction and the expiry check of /join agree on when a
\* Challenge is expired: at every clock value (now = expiresAt included) the
\* cleanup run by /challenge removes a Challenge exactly when a /join for it
\* at the same instant would be rejected as expired, so eviction never
\* removes a Challenge that join would still accept.
C39_ExpiryAgrees ==
  \A n \in AllNodes : \A k \in DOMAIN challenges[n] : Evicted(n, k) <=> JoinExpired(n, k)

====
